---- MODULE Spec2Model ----
(***************************************************************************)
(* A model of wacli: the local store (chats and messages tables), the      *)
(* sync loop with its idle exit and reconnect, the on-demand backfill      *)
(* callback, and the send gateway on the unix socket of a store directory. *)
(*                                                                         *)
(* SQL values: NULL is the token below; a TEXT or BLOB column holds NULL   *)
(* or a string (possibly empty).  A time.Time is a whole number of seconds *)
(* since the epoch, or ZeroTime for the zero value time.Time{}.            *)
(***************************************************************************)
EXTENDS Integers, Sequences, FiniteSets, TLC

VARIABLES
    chats,        \* chats table: jid -> NoRow or a row
    messages,     \* messages table: a set of rows
    nextRowid,    \* AUTOINCREMENT counter of messages.rowid
    call,         \* the last store operation, with its arguments and result
    supplied,     \* history: jid -> the set of last_message_ts values UpsertChat was given
    ops,          \* number of operations performed (bounded)
    db,           \* the rest of the opened store: the schema's ledger and tables,
                  \* ftsEnabled, the group_participants table
    sync,         \* one Sync call: its options, position, timers and result
    send          \* the send gateway, its socket path and one send request

storeVars == <<chats, messages, nextRowid, call, supplied, ops, db>>

vars == <<chats, messages, nextRowid, call, supplied, ops, db, sync, send>>

----------------------------------------------------------------------------
(* Bounds *)

MaxTs == 2
MaxOps == 3

----------------------------------------------------------------------------
(* Values *)

NULL == "<NULL>"
NoRow == [absent |-> TRUE]
ZeroTime == -1

ChatJIDs == {"c1@s.whatsapp.net", "g1@g.us"}
MsgIDs == {"m1", "m2"}
Times == {ZeroTime} \cup (1..MaxTs)

\* strings.TrimSpace on the strings the model uses
TrimSpace(s) ==
    CASE s = " " -> ""
      [] s = " Alice " -> "Alice"
      [] s = " hello " -> "hello"
      [] OTHER -> s

unix(t) == IF t = ZeroTime THEN 0 ELSE t

fromUnix(sec) == IF sec <= 0 THEN ZeroTime ELSE sec

boolToInt(b) == IF b THEN 1 ELSE 0

nullIfEmpty(s) == IF TrimSpace(s) = "" THEN NULL ELSE TrimSpace(s)

SetMax(S) == CHOOSE x \in S : \A y \in S : y <= x

----------------------------------------------------------------------------
(* chats table: UpsertChat *)

\* name=excluded.name
ChatNameUnguarded(old, new) == new

\* name=CASE WHEN excluded.name IS NOT NULL AND excluded.name != ''
\*      THEN excluded.name ELSE chats.name END
ChatNameMerge(old, new) ==
    IF new # NULL /\ new # "" THEN new ELSE old

\* last_message_ts=excluded.last_message_ts
ChatTsUnguarded(old, new) == new

\* last_message_ts=CASE WHEN excluded.last_message_ts > COALESCE(chats.last_message_ts, 0) ...
\* (every writer binds an integer, so the stored value is never NULL)
ChatTsMerge(old, new) ==
    IF new > old THEN new ELSE old

UpsertChat(tbl, jid, kind, name, lastTS) ==
    LET k == IF TrimSpace(kind) = "" THEN "unknown" ELSE kind
        excluded == [kind |-> k, name |-> name, last_message_ts |-> unix(lastTS)]
    IN  IF tbl[jid] = NoRow
        THEN [tbl EXCEPT ![jid] = excluded]
        ELSE [tbl EXCEPT ![jid] =
                [kind |-> excluded.kind,
                 name |-> ChatNameMerge(tbl[jid].name, excluded.name),
                 last_message_ts |-> ChatTsMerge(tbl[jid].last_message_ts,
                                                 excluded.last_message_ts)]]

----------------------------------------------------------------------------
(* messages table: UpsertMessage *)

NullInt == <<>>    \* NULL in a nullable INTEGER column; <<n>> is the value n

\* COALESCE(NULLIF(excluded.x,''), messages.x)
CoalesceNullif(old, new) ==
    IF new # NULL /\ new # "" THEN new ELSE old

\* x=excluded.x
Overwrite(old, new) == new

\* x=COALESCE(messages.x, excluded.x): the first value stored stays
KeepFirst(old, new) ==
    IF old # NULL THEN old ELSE new

\* CASE WHEN excluded.x IS NOT NULL AND excluded.x != '' (or length(excluded.x)>0)
\*      THEN excluded.x ELSE messages.x END
KeepUnlessNonEmpty(old, new) ==
    IF new # NULL /\ new # "" THEN new ELSE old

\* file_length=excluded.file_length
FileLengthOverwrite(old, new) == new

\* file_length=CASE WHEN excluded.file_length>0 THEN excluded.file_length ELSE messages.file_length END
FileLengthMerge(old, new) ==
    IF new > 0 THEN new ELSE old

\* the VALUES(...) row of the INSERT: the bound parameters of UpsertMessage
ExcludedRow(p) ==
    [chat_jid |-> p.ChatJID,
     chat_name |-> nullIfEmpty(p.ChatName),
     msg_id |-> p.MsgID,
     sender_jid |-> nullIfEmpty(p.SenderJID),
     sender_name |-> nullIfEmpty(p.SenderName),
     ts |-> unix(p.Timestamp),
     from_me |-> boolToInt(p.FromMe),
     text |-> nullIfEmpty(p.Text),
     display_text |-> nullIfEmpty(p.DisplayText),
     media_type |-> nullIfEmpty(p.MediaType),
     media_caption |-> nullIfEmpty(p.MediaCaption),
     filename |-> nullIfEmpty(p.Filename),
     mime_type |-> nullIfEmpty(p.MimeType),
     direct_path |-> nullIfEmpty(p.DirectPath),
     media_key |-> p.MediaKey,
     file_sha256 |-> p.FileSHA256,
     file_enc_sha256 |-> p.FileEncSHA256,
     file_length |-> p.FileLength,
     reaction_to_id |-> nullIfEmpty(p.ReactionToID),
     reaction_emoji |-> nullIfEmpty(p.ReactionEmoji)]

\* a new row: the columns the INSERT does not name take their defaults
InsertedRow(e, rowid) ==
    [rowid |-> rowid,
     chat_jid |-> e.chat_jid, chat_name |-> e.chat_name, msg_id |-> e.msg_id,
     sender_jid |-> e.sender_jid, sender_name |-> e.sender_name,
     ts |-> e.ts, from_me |-> e.from_me,
     text |-> e.text, display_text |-> e.display_text,
     media_type |-> e.media_type, media_caption |-> e.media_caption,
     filename |-> e.filename, mime_type |-> e.mime_type,
     direct_path |-> e.direct_path,
     media_key |-> e.media_key, file_sha256 |-> e.file_sha256,
     file_enc_sha256 |-> e.file_enc_sha256, file_length |-> e.file_length,
     local_path |-> NULL, downloaded_at |-> NullInt,
     reaction_to_id |-> e.reaction_to_id, reaction_emoji |-> e.reaction_emoji]

\* ON CONFLICT(chat_jid, msg_id) DO UPDATE SET ...
ConflictUpdate(r, e) ==
    [r EXCEPT
       !.chat_name = CoalesceNullif(r.chat_name, e.chat_name),
       !.sender_jid = Overwrite(r.sender_jid, e.sender_jid),
       !.sender_name = CoalesceNullif(r.sender_name, e.sender_name),
       !.ts = e.ts,
       !.from_me = e.from_me,
       !.text = Overwrite(r.text, e.text),
       !.display_text = KeepUnlessNonEmpty(r.display_text, e.display_text),
       !.media_type = Overwrite(r.media_type, e.media_type),
       !.media_caption = Overwrite(r.media_caption, e.media_caption),
       !.filename = CoalesceNullif(r.filename, e.filename),
       !.mime_type = CoalesceNullif(r.mime_type, e.mime_type),
       !.direct_path = CoalesceNullif(r.direct_path, e.direct_path),
       !.media_key = KeepUnlessNonEmpty(r.media_key, e.media_key),
       !.file_sha256 = KeepUnlessNonEmpty(r.file_sha256, e.file_sha256),
       !.file_enc_sha256 = KeepUnlessNonEmpty(r.file_enc_sha256, e.file_enc_sha256),
       !.file_length = FileLengthMerge(r.file_length, e.file_length),
       !.reaction_to_id = CoalesceNullif(r.reaction_to_id, e.reaction_to_id),
       !.reaction_emoji = CoalesceNullif(r.reaction_emoji, e.reaction_emoji)]

\* UNIQUE(chat_jid, msg_id, ts)
UniqueWithTs(msgs, e) ==
    {r \in msgs : r.chat_jid = e.chat_jid /\ r.msg_id = e.msg_id /\ r.ts = e.ts}

\* UNIQUE(chat_jid, msg_id): the rows the insert of e conflicts with
UniqueConflicts(msgs, e) ==
    {r \in msgs : r.chat_jid = e.chat_jid /\ r.msg_id = e.msg_id}

\* INSERT OR REPLACE in place of the upsert: the conflicting row is deleted
\* and a new one inserted
UpsertMessageReplace(chatTbl, msgs, rowid, p) ==
    LET e == ExcludedRow(p)
        hit == UniqueConflicts(msgs, e)
    IN  IF p.ChatJID \notin DOMAIN chatTbl \/ chatTbl[p.ChatJID] = NoRow
        THEN [err |-> TRUE, messages |-> msgs, nextRowid |-> rowid]
        ELSE [err |-> FALSE,
              messages |-> (msgs \ hit) \cup {InsertedRow(e, rowid)},
              nextRowid |-> rowid + 1]

\* UpsertMessage on tables (chatTbl, msgs) with AUTOINCREMENT counter rowid:
\* the error (FOREIGN KEY (chat_jid) REFERENCES chats(jid)) or the new table
UpsertMessage(chatTbl, msgs, rowid, p) ==
    LET e == ExcludedRow(p)
        hit == UniqueConflicts(msgs, e)
    IN  IF p.ChatJID \notin DOMAIN chatTbl \/ chatTbl[p.ChatJID] = NoRow
        THEN [err |-> TRUE, messages |-> msgs, nextRowid |-> rowid]
        ELSE IF hit # {}
        THEN [err |-> FALSE,
              messages |-> (msgs \ hit) \cup {ConflictUpdate(r, e) : r \in hit},
              nextRowid |-> rowid]
        ELSE [err |-> FALSE,
              messages |-> msgs \cup {InsertedRow(e, rowid)},
              nextRowid |-> rowid + 1]

RowsOf(msgs, chatJID, msgID) ==
    {r \in msgs : r.chat_jid = chatJID /\ r.msg_id = msgID}

----------------------------------------------------------------------------
(* Reads: GetMessage *)

NotFound == [err |-> TRUE]

\* one scanned result row: the SELECT list shared by GetMessage and
\* scanMessages, with the chat name LEFT JOINed from chats
ScanRow(chatTbl, m) ==
    [ChatJID |-> m.chat_jid,
     ChatName |-> IF m.chat_jid \in DOMAIN chatTbl
                     /\ chatTbl[m.chat_jid] # NoRow
                     /\ chatTbl[m.chat_jid].name # NULL
                  THEN chatTbl[m.chat_jid].name ELSE "",
     MsgID |-> m.msg_id,
     SenderJID |-> IF m.sender_jid = NULL THEN "" ELSE m.sender_jid,
     Timestamp |-> fromUnix(m.ts),
     FromMe |-> m.from_me # 0,
     Text |-> IF m.text = NULL THEN "" ELSE m.text,
     DisplayText |-> IF m.display_text = NULL THEN "" ELSE m.display_text,
     MediaType |-> IF m.media_type = NULL THEN "" ELSE m.media_type,
     Snippet |-> ""]

\* GetMessage: the Message of row (chatJID, msgID), or sql.ErrNoRows
GetMessage(chatTbl, msgs, chatJID, msgID) ==
    LET hit == RowsOf(msgs, chatJID, msgID)
    IN  IF hit = {} THEN NotFound
        ELSE [err |-> FALSE] @@ ScanRow(chatTbl, CHOOSE r \in hit : TRUE)

\* the orders in which a query may return the rows S under ORDER BY ts
\* (DESC or ASC): rows of equal ts come in any order
OrderByTs(S, desc) ==
    {s \in [1..Cardinality(S) -> S] :
        /\ \A i, j \in 1..Cardinality(S) : i # j => s[i] # s[j]
        /\ \A i, j \in 1..Cardinality(S) :
              i < j => IF desc THEN s[i].ts >= s[j].ts ELSE s[i].ts <= s[j].ts}

\* LIMIT k: a negative k is no limit in SQLite
Limit(s, k) ==
    IF k < 0 \/ k >= Len(s) THEN s ELSE SubSeq(s, 1, k)

Reverse(s) == [i \in 1..Len(s) |-> s[Len(s) + 1 - i]]

\* before and after used as given
NoClamp(n) == n

\* if before < 0 { before = 0 }, and the same for after
ClampArg(n) == IF n < 0 THEN 0 ELSE n

\* the results MessageContext may return: an error when the target is not
\* stored, else the before rows reversed, the target, the after rows
MessageContext(chatTbl, msgs, chatJID, msgID, before, after) ==
    LET b == ClampArg(before)
        a == ClampArg(after)
        target == GetMessage(chatTbl, msgs, chatJID, msgID)
    IN  IF target.err THEN {[err |-> TRUE, out |-> <<>>]}
        ELSE LET tts == unix(target.Timestamp)
                 older == {r \in msgs : r.chat_jid = chatJID /\ r.ts < tts}
                 newer == {r \in msgs : r.chat_jid = chatJID /\ r.ts > tts}
                 scan(s) == [i \in 1..Len(s) |-> ScanRow(chatTbl, s[i])]
             IN  {[err |-> FALSE,
                   out |-> Reverse(scan(Limit(bs, b)))
                           \o <<ScanRow(chatTbl, CHOOSE r \in RowsOf(msgs, chatJID, msgID) : TRUE)>>
                           \o scan(Limit(as, a))] :
                     bs \in OrderByTs(older, TRUE), as \in OrderByTs(newer, FALSE)}

----------------------------------------------------------------------------
(* Ingestion: storeParsedMessage and the display text *)

NoMedia == [nil |-> TRUE]

\* types.JID.Server of the JIDs the model uses
Server(jid) ==
    CASE jid \in {"c1@s.whatsapp.net", "b@s.whatsapp.net"} -> "s.whatsapp.net"
      [] jid = "g1@g.us" -> "g.us"
      [] OTHER -> ""

chatKind(chat) ==
    IF Server(chat) = "g.us" THEN "group"
    ELSE IF Server(chat) = "broadcast" THEN "broadcast"
    ELSE IF Server(chat) = "s.whatsapp.net" THEN "dm"
    ELSE "unknown"

\* ResolveChatName: known is the group or contact name the session resolves
\* for the chat ("" when the lookup fails or finds none)
ResolveChatName(chat, known, pushName) ==
    IF TrimSpace(known) # "" THEN TrimSpace(known)
    ELSE IF TrimSpace(pushName) # "" /\ TrimSpace(pushName) # "-"
         THEN TrimSpace(pushName)
    ELSE chat

\* strings.ToLower on the strings the model uses
ToLower(s) ==
    CASE s = "Image" -> "image"
      [] s = "FILE" -> "file"
      [] OTHER -> s

\* every case of the switch returns the lowered, trimmed type itself,
\* except the empty one
mediaLabel(mediaType) ==
    LET mt == ToLower(TrimSpace(mediaType))
    IN  IF mt = "" THEN "message" ELSE mt

\* a base text that looks at the text only
baseDisplayTextOnly(pm) == TrimSpace(pm.Text)

baseDisplayText(pm) ==
    IF pm.Media # NoMedia THEN "Sent " \o mediaLabel(pm.Media.Type)
    ELSE IF TrimSpace(pm.Text) # "" THEN TrimSpace(pm.Text)
    ELSE ""

\* a lookup that reads the display text column only
lookupDisplayTextOnly(chatTbl, msgs, chatJID, msgID) ==
    IF TrimSpace(chatJID) = "" \/ TrimSpace(msgID) = "" THEN ""
    ELSE LET msg == GetMessage(chatTbl, msgs, chatJID, msgID)
         IN  IF msg.err THEN "" ELSE TrimSpace(msg.DisplayText)

lookupMessageDisplayText(chatTbl, msgs, chatJID, msgID) ==
    IF TrimSpace(chatJID) = "" \/ TrimSpace(msgID) = "" THEN ""
    ELSE LET msg == GetMessage(chatTbl, msgs, chatJID, msgID)
         IN  IF msg.err THEN ""
             ELSE IF TrimSpace(msg.DisplayText) # "" THEN TrimSpace(msg.DisplayText)
             ELSE IF TrimSpace(msg.Text) # "" THEN TrimSpace(msg.Text)
             ELSE IF TrimSpace(msg.MediaType) # "" THEN "Sent " \o mediaLabel(msg.MediaType)
             ELSE ""

\* a display text that never resolves the target of a reaction
buildDisplayTextUnresolved(chatTbl, msgs, pm) ==
    IF pm.ReactionToID # "" \/ TrimSpace(pm.ReactionEmoji) # ""
    THEN "Reacted " \o TrimSpace(pm.ReactionEmoji) \o " to message"
    ELSE IF baseDisplayText(pm) = "" THEN "(message)" ELSE baseDisplayText(pm)

buildDisplayText(chatTbl, msgs, pm) ==
    LET base == baseDisplayText(pm)
    IN  IF pm.ReactionToID # "" \/ TrimSpace(pm.ReactionEmoji) # ""
        THEN LET target == TrimSpace(pm.ReactionToID)
                 found == IF target # ""
                          THEN lookupMessageDisplayText(chatTbl, msgs, pm.Chat, target)
                          ELSE ""
                 display == IF found = "" THEN "message" ELSE found
                 emoji == TrimSpace(pm.ReactionEmoji)
             IN  IF emoji # "" THEN "Reacted " \o emoji \o " to " \o display
                 ELSE "Reacted to " \o display
        ELSE IF pm.ReplyToID # ""
        THEN LET inline == TrimSpace(pm.ReplyToDisplay)
                 found == IF inline = ""
                          THEN lookupMessageDisplayText(chatTbl, msgs, pm.Chat, pm.ReplyToID)
                          ELSE inline
                 quoted == IF found = "" THEN "message" ELSE found
             IN  "> " \o quoted \o "\n" \o (IF base = "" THEN "(message)" ELSE base)
        ELSE IF base = "" THEN "(message)" ELSE base

\* the UpsertMessageParams storeParsedMessage builds; known is what the
\* session resolves for the chat, senderKnown the sender's contact name
StoredParams(chatTbl, msgs, pm, known, senderKnown) ==
    LET pushed == IF pm.FromMe THEN "me"
                  ELSE IF TrimSpace(pm.PushName) # "" /\ TrimSpace(pm.PushName) # "-"
                       THEN TrimSpace(pm.PushName)
                  ELSE ""
        senderName == IF pm.SenderJID # "" /\ senderKnown # ""
                      THEN senderKnown ELSE pushed
        md == pm.Media
        has == md # NoMedia
    IN  [ChatJID |-> pm.Chat,
         ChatName |-> ResolveChatName(pm.Chat, known, pm.PushName),
         MsgID |-> pm.ID,
         SenderJID |-> pm.SenderJID,
         SenderName |-> senderName,
         Timestamp |-> pm.Timestamp,
         FromMe |-> pm.FromMe,
         Text |-> pm.Text,
         DisplayText |-> buildDisplayText(chatTbl, msgs, pm),
         MediaType |-> IF has THEN md.Type ELSE "",
         MediaCaption |-> IF has THEN md.Caption ELSE "",
         Filename |-> IF has THEN md.Filename ELSE "",
         MimeType |-> IF has THEN md.MimeType ELSE "",
         DirectPath |-> IF has THEN md.DirectPath ELSE "",
         MediaKey |-> IF has THEN md.MediaKey ELSE NULL,
         FileSHA256 |-> IF has THEN md.FileSHA256 ELSE NULL,
         FileEncSHA256 |-> IF has THEN md.FileEncSHA256 ELSE NULL,
         FileLength |-> IF has THEN md.FileLength ELSE 0,
         ReactionToID |-> "",
         ReactionEmoji |-> ""]

\* storeParsedMessage on the store st = [chats, messages, nextRowid]:
\* UpsertChat, then UpsertMessage with the display text read from the store
storeParsedMessage(st, pm, known, senderKnown) ==
    LET c2 == UpsertChat(st.chats, pm.Chat, chatKind(pm.Chat),
                         ResolveChatName(pm.Chat, known, pm.PushName), pm.Timestamp)
        res == UpsertMessage(c2, st.messages, st.nextRowid,
                             StoredParams(c2, st.messages, pm, known, senderKnown))
    IN  [chats |-> c2, messages |-> res.messages, nextRowid |-> res.nextRowid,
         err |-> res.err]

----------------------------------------------------------------------------
(* Initial state: a freshly opened, empty store *)

NoCall == [op |-> "none"]
NoDB == [pc |-> "none"]

\* no Sync call and no send in progress
NoSync == [pc |-> "none"]
NoSend == [pc |-> "none"]

StoreInit ==
    /\ chats = [j \in ChatJIDs |-> NoRow]
    /\ messages = {}
    /\ nextRowid = 1
    /\ call = NoCall
    /\ supplied = [j \in ChatJIDs |-> {}]
    /\ ops = 0
    /\ db = NoDB

Init == StoreInit /\ sync = NoSync /\ send = NoSend

----------------------------------------------------------------------------
(* The chats table under direct UpsertChat calls *)

ChatKinds == {"", "dm", "group"}
ChatNames == {"", " ", "Alice", "Bob"}

UpsertChatCall ==
    \E jid \in ChatJIDs, kind \in ChatKinds, name \in ChatNames, t \in Times :
        /\ chats' = UpsertChat(chats, jid, kind, name, t)
        /\ call' = [op |-> "UpsertChat", jid |-> jid, kind |-> kind,
                    name |-> name, lastTS |-> t]
        /\ supplied' = [supplied EXCEPT ![jid] = @ \cup {unix(t)}]
        /\ UNCHANGED <<messages, nextRowid, ops, db, sync, send>>

NextChat == UpsertChatCall

SpecChat == Init /\ [][NextChat]_vars

\* C4: once a chat has a non-empty stored name, an UpsertChat call that
\* carries an empty name leaves the stored name as it was.
C4_EmptyNameKeepsName ==
    [][ \A j \in ChatJIDs :
          ( /\ chats[j] # NoRow
            /\ chats[j].name # ""
            /\ chats[j].name # NULL
            /\ call'.op = "UpsertChat"
            /\ call'.jid = j
            /\ call'.name = "" )
          => chats'[j].name = chats[j].name ]_vars

\* an UpsertChat with an empty name has run on a chat whose name is known
C4_Witness ==
    /\ call.op = "UpsertChat"
    /\ call.name = ""
    /\ chats[call.jid] # NoRow
    /\ chats[call.jid].name = "Alice"

\* C5: a chat's stored last-activity timestamp equals the largest timestamp
\* supplied to UpsertChat for that chat so far, and no step decreases it.
C5_LastTsIsMaxSupplied ==
    /\ [](\A j \in ChatJIDs :
            chats[j] # NoRow => chats[j].last_message_ts = SetMax(supplied[j]))
    /\ [][ \A j \in ChatJIDs :
             chats[j] # NoRow =>
                /\ chats'[j] # NoRow
                /\ chats'[j].last_message_ts >= chats[j].last_message_ts ]_vars

\* an UpsertChat with an older timestamp has run and the newer one is stored
C5_Witness ==
    /\ call.op = "UpsertChat"
    /\ chats[call.jid] # NoRow
    /\ unix(call.lastTS) < chats[call.jid].last_message_ts

----------------------------------------------------------------------------
(* The messages table under direct UpsertMessage calls *)

\* UpsertMessageParams with every optional field at its Go zero value
ZeroParams(chatJID, msgID) ==
    [ChatJID |-> chatJID, ChatName |-> "", MsgID |-> msgID,
     SenderJID |-> "", SenderName |-> "",
     Timestamp |-> ZeroTime, FromMe |-> FALSE,
     Text |-> "", DisplayText |-> "",
     MediaType |-> "", MediaCaption |-> "", Filename |-> "", MimeType |-> "",
     DirectPath |-> "",
     MediaKey |-> NULL, FileSHA256 |-> NULL, FileEncSHA256 |-> NULL,
     FileLength |-> 0,
     ReactionToID |-> "", ReactionEmoji |-> ""]

\* the fields a caller sets, by kind of message
ParamShapes ==
    { [Timestamp |-> 1],
      [Timestamp |-> 2, FromMe |-> TRUE, SenderName |-> "me", ChatName |-> " "],
      [Timestamp |-> 1, ChatName |-> "Alice", SenderJID |-> "c1@s.whatsapp.net",
       SenderName |-> "Alice", Text |-> "hello", DisplayText |-> "hello"],
      [Timestamp |-> 2, ChatName |-> "Bob", SenderJID |-> "b@s.whatsapp.net",
       SenderName |-> "Bob", Text |-> " hello ", DisplayText |-> "> hello"],
      [Timestamp |-> 1, Text |-> "cap", DisplayText |-> "Sent image",
       MediaType |-> "image", MediaCaption |-> "cap", Filename |-> "a.jpg",
       MimeType |-> "image/jpeg", DirectPath |-> "/a", MediaKey |-> "k1",
       FileSHA256 |-> "h1", FileEncSHA256 |-> "e1", FileLength |-> 10],
      [Timestamp |-> 2, DisplayText |-> "Sent video",
       MediaType |-> "video", Filename |-> "b.mp4",
       MimeType |-> "video/mp4", DirectPath |-> "/b", MediaKey |-> "k2",
       FileSHA256 |-> "h2", FileEncSHA256 |-> "e2", FileLength |-> 20],
      [Timestamp |-> 2, MediaType |-> "image", MediaKey |-> "",
       FileSHA256 |-> "", FileEncSHA256 |-> ""],
      [Timestamp |-> 2, DisplayText |-> "Reacted + to hello",
       ReactionToID |-> "m2", ReactionEmoji |-> "+"] }

UpsertKeys ==
    { <<"c1@s.whatsapp.net", "m1">>, <<"c1@s.whatsapp.net", "m2">>,
      <<"g1@g.us", "m1">> }

\* every shape on the first key, the first shapes on the others
UpsertInputs ==
    { s @@ ZeroParams(k[1], k[2]) :
        k \in {<<"c1@s.whatsapp.net", "m1">>}, s \in ParamShapes }
    \cup
    { s @@ ZeroParams(k[1], k[2]) :
        k \in UpsertKeys \ {<<"c1@s.whatsapp.net", "m1">>},
        s \in {[Timestamp |-> 1],
               [Timestamp |-> 1, ChatName |-> "Alice",
                SenderJID |-> "c1@s.whatsapp.net", SenderName |-> "Alice",
                Text |-> "hello", DisplayText |-> "hello"]} }

\* UpsertChat as the callers of UpsertMessage make it before the message write
EnsureChat ==
    \E jid \in ChatJIDs :
        /\ chats' = UpsertChat(chats, jid, "dm", "Alice", 1)
        /\ call' = [op |-> "UpsertChat", jid |-> jid, kind |-> "dm",
                    name |-> "Alice", lastTS |-> 1]
        /\ UNCHANGED <<messages, nextRowid, supplied, ops, db, sync, send>>

UpsertMessageCall ==
    \E p \in UpsertInputs :
        LET res == UpsertMessage(chats, messages, nextRowid, p)
        IN  /\ ops < MaxOps
            /\ messages' = res.messages
            /\ nextRowid' = res.nextRowid
            /\ call' = [op |-> "UpsertMessage", p |-> p, err |-> res.err,
                        again |-> (call.op = "UpsertMessage" /\ call.p = p
                                   /\ ~call.err)]
            /\ ops' = ops + 1
            /\ UNCHANGED <<chats, supplied, db, sync, send>>

NextUpsert == EnsureChat \/ UpsertMessageCall

SpecUpsert == Init /\ [][NextUpsert]_vars

\* C1: UpsertMessage applied a second time with the identical payload leaves
\* exactly one row for that (chat_jid, msg_id), every column of that row as
\* it was after the first call, and every other row unchanged.
C1_UpsertMessageIdempotent ==
    [][ ( /\ call.op = "UpsertMessage"
          /\ ~call.err
          /\ call'.op = "UpsertMessage"
          /\ call'.p = call.p
          /\ ops' = ops + 1 )
        => /\ ~call'.err
           /\ messages' = messages
           /\ Cardinality(RowsOf(messages', call.p.ChatJID, call.p.MsgID)) = 1
      ]_vars

\* the same payload was applied twice in a row to a table holding another row
C1_Witness ==
    /\ call.op = "UpsertMessage"
    /\ call.again
    /\ ~call.err
    /\ Cardinality(messages) >= 2

\* the TEXT and BLOB columns of messages besides the key
C3TextColumns ==
    {"text", "sender_jid", "media_type", "media_caption", "chat_name",
     "sender_name", "display_text", "filename", "mime_type", "direct_path",
     "media_key", "file_sha256", "file_enc_sha256", "reaction_to_id",
     "reaction_emoji", "local_path"}

\* C3: on UpsertMessage for an existing (chat_jid, msg_id), a column of that
\* row that held a non-empty value never becomes empty or NULL: text,
\* sender_jid, media_type and media_caption as well as the name, path, key,
\* hash and length columns.
C3_NonEmptyNeverCleared ==
    [][ \A r \in messages : \A r2 \in messages' :
          (r2.chat_jid = r.chat_jid /\ r2.msg_id = r.msg_id) =>
             /\ \A c \in C3TextColumns :
                   (r[c] # NULL /\ r[c] # "") => (r2[c] # NULL /\ r2[c] # "")
             /\ r.file_length > 0 => r2.file_length > 0
      ]_vars

----------------------------------------------------------------------------
(* Ingestion: live messages, history batches and the echoes of sends *)

MaxBatch == 2
MaxWrites == 2

TheStore == [chats |-> chats, messages |-> messages, nextRowid |-> nextRowid]

ImageMedia ==
    [Type |-> "image", Caption |-> "", Filename |-> "", MimeType |-> "image/jpeg",
     DirectPath |-> "/d1", MediaKey |-> "k1", FileSHA256 |-> "h1",
     FileEncSHA256 |-> "e1", FileLength |-> 10]

\* what a parsed message carries besides chat, id and timestamp
PMBodies ==
    { [SenderJID |-> "b@s.whatsapp.net", FromMe |-> FALSE, Text |-> "hello",
       Media |-> NoMedia, PushName |-> "Bob", ReplyToID |-> "",
       ReplyToDisplay |-> "", ReactionToID |-> "", ReactionEmoji |-> ""],
      [SenderJID |-> "", FromMe |-> TRUE, Text |-> "",
       Media |-> ImageMedia, PushName |-> "", ReplyToID |-> "",
       ReplyToDisplay |-> "", ReactionToID |-> "", ReactionEmoji |-> ""],
      [SenderJID |-> "b@s.whatsapp.net", FromMe |-> FALSE, Text |-> "",
       Media |-> NoMedia, PushName |-> "-", ReplyToID |-> "",
       ReplyToDisplay |-> "", ReactionToID |-> "m1", ReactionEmoji |-> "+"] }

ParsedMessage(chat, id, t, body) ==
    [Chat |-> chat, ID |-> id, Timestamp |-> t] @@ body

\* what the session resolves for the chat and for the sender: nothing, or
\* a contact name for each
Lookups == {<<"", "">>, <<"Alice", "Bob">>}

LookupFor(body) ==
    IF body.Text = "hello" THEN <<"Alice", "Bob">> ELSE <<"", "">>

\* events.Message: the handler stores the parsed message
LiveMessage ==
    \E chat \in ChatJIDs, id \in MsgIDs, t \in 1..MaxTs, body \in PMBodies :
        LET pm == ParsedMessage(chat, id, t, body)
            lk == LookupFor(body)
            res == storeParsedMessage(TheStore, pm, lk[1], lk[2])
        IN  /\ ops < MaxWrites
            /\ chats' = res.chats
            /\ messages' = res.messages
            /\ nextRowid' = res.nextRowid
            /\ call' = [op |-> "LiveMessage", jid |-> chat, id |-> id,
                        conflict |-> RowsOf(messages, chat, id) # {}]
            /\ supplied' = [supplied EXCEPT ![chat] = @ \cup {unix(t)}]
            /\ ops' = ops + 1
            /\ UNCHANGED <<db, sync, send>>

\* the entries of a history conversation: a nil Message, or what
\* ParseHistoryMessage makes of the entry (id, timestamp, body)
HistEntries ==
    { [nilMessage |-> TRUE, ID |-> "m1", t |-> 1, body |-> 1],
      [nilMessage |-> FALSE, ID |-> "", t |-> 1, body |-> 1],
      [nilMessage |-> FALSE, ID |-> "m1", t |-> 1, body |-> 1],
      [nilMessage |-> FALSE, ID |-> "m2", t |-> MaxTs, body |-> 2] }

BodyOf(n) ==
    CHOOSE b \in PMBodies :
        IF n = 1 THEN b.Text = "hello" ELSE b.Media # NoMedia

HistBatches == UNION {[1..n -> HistEntries] : n \in 1..MaxBatch}

RECURSIVE storeHistory(_, _, _, _, _)
\* the inner loop of the HistorySync case over conv.Messages
storeHistory(st, sup, chatID, entries, lk) ==
    IF entries = <<>> THEN [st |-> st, sup |-> sup]
    ELSE LET m == Head(entries)
         IN  IF m.nilMessage \/ m.ID = ""
             THEN storeHistory(st, sup, chatID, Tail(entries), lk)
             ELSE LET pm == ParsedMessage(chatID, m.ID, m.t, BodyOf(m.body))
                      res == storeParsedMessage(st, pm, lk[1], lk[2])
                  IN  storeHistory([chats |-> res.chats, messages |-> res.messages,
                                    nextRowid |-> res.nextRowid],
                                   [sup EXCEPT ![chatID] = @ \cup {unix(m.t)}],
                                   chatID, Tail(entries), lk)

\* events.HistorySync with one conversation
HistorySync ==
    \E convID \in {" c1@s.whatsapp.net ", " "},
       entries \in HistBatches, lk \in Lookups :
        LET chatID == IF convID = " " THEN "" ELSE "c1@s.whatsapp.net"
            res == IF chatID = "" THEN [st |-> TheStore, sup |-> supplied]
                   ELSE storeHistory(TheStore, supplied, chatID, entries, lk)
        IN  /\ ops < MaxWrites
            /\ chats' = res.st.chats
            /\ messages' = res.st.messages
            /\ nextRowid' = res.st.nextRowid
            /\ call' = [op |-> "HistorySync", jid |-> chatID, id |-> "",
                        conflict |-> \E i \in 1..Len(entries) :
                                        /\ chatID # ""
                                        /\ ~entries[i].nilMessage
                                        /\ RowsOf(messages, chatID, entries[i].ID) # {}]
            /\ supplied' = res.sup
            /\ ops' = ops + 1
            /\ UNCHANGED <<db, sync, send>>

\* the rows a successful text send writes (gateway and direct CLI alike)
EchoText(st, to, msgID, now, message, known) ==
    LET chatName == ResolveChatName(to, known, "")
        c2 == UpsertChat(st.chats, to, chatKind(to), chatName, now)
        res == UpsertMessage(c2, st.messages, st.nextRowid,
                   [ChatJID |-> to, ChatName |-> chatName, MsgID |-> msgID,
                    SenderJID |-> "", SenderName |-> "me", Timestamp |-> now,
                    FromMe |-> TRUE, Text |-> message] @@ ZeroParams(to, msgID))
    IN  [chats |-> c2, messages |-> res.messages, nextRowid |-> res.nextRowid]

\* a text send that reached WhatsApp: the server's id, then the echo rows
SendTextEcho ==
    \E to \in ChatJIDs, msgID \in MsgIDs, now \in 1..MaxTs,
       message \in {"bye"}, known \in {""} :
        LET res == EchoText(TheStore, to, msgID, now, message, known)
        IN  /\ ops < MaxWrites
            /\ chats' = res.chats
            /\ messages' = res.messages
            /\ nextRowid' = res.nextRowid
            /\ call' = [op |-> "SendTextEcho", jid |-> to, id |-> msgID,
                        conflict |-> RowsOf(messages, to, msgID) # {}]
            /\ supplied' = [supplied EXCEPT ![to] = @ \cup {unix(now)}]
            /\ ops' = ops + 1
            /\ UNCHANGED <<db, sync, send>>

Next == LiveMessage \/ HistorySync \/ SendTextEcho

Spec == Init /\ [][Next]_vars

\* C2: whatever order live messages, history batches and send echoes are
\* written in, the messages table holds at most one row per (chat_jid, msg_id),
\* and no write removes a row: every row keeps its rowid and its key.
C2_OneRowPerKey ==
    [][ /\ \A r1 \in messages' : \A r2 \in messages' :
              (r1.chat_jid = r2.chat_jid /\ r1.msg_id = r2.msg_id) => r1 = r2
        /\ \A r \in messages : \E r2 \in messages' :
              r2.rowid = r.rowid /\ r2.chat_jid = r.chat_jid /\ r2.msg_id = r.msg_id
      ]_vars

C2_Witness ==
    /\ call.op \in {"HistorySync", "SendTextEcho"}
    /\ call.conflict
    /\ Cardinality(messages) >= 2

----------------------------------------------------------------------------
(* Reading a message with its context *)

MaxCtx == 2

\* the messages that arrive, in their order of arrival
CtxKeys ==
    << <<"c1@s.whatsapp.net", "m1">>, <<"g1@g.us", "m1">>,
       <<"c1@s.whatsapp.net", "m2">>, <<"c1@s.whatsapp.net", "m3">> >>

TextBody == CHOOSE b \in PMBodies : b.Text = "hello"

\* the next live text message is stored, with any timestamp
CtxLiveMessage ==
    \E t \in Times :
        /\ ops < Len(CtxKeys)
        /\ LET k == CtxKeys[ops + 1]
               pm == ParsedMessage(k[1], k[2], t, TextBody)
               res == storeParsedMessage(TheStore, pm, "", "")
           IN  /\ chats' = res.chats
               /\ messages' = res.messages
               /\ nextRowid' = res.nextRowid
               /\ call' = [op |-> "LiveMessage", jid |-> k[1], id |-> k[2],
                           conflict |-> RowsOf(messages, k[1], k[2]) # {}]
               /\ supplied' = [supplied EXCEPT ![k[1]] = @ \cup {unix(t)}]
               /\ ops' = ops + 1
               /\ UNCHANGED <<db, sync, send>>

\* MessageContext(chatJID, msgID, before, after) is called
MessageContextCall ==
    \E chatJID \in ChatJIDs, msgID \in {"m1", "m2", "m3"},
       before \in -1..MaxCtx, after \in -1..MaxCtx :
        \E res \in MessageContext(chats, messages, chatJID, msgID, before, after) :
            /\ call' = [op |-> "MessageContext", jid |-> chatJID, id |-> msgID,
                        before |-> before, after |-> after,
                        err |-> res.err, out |-> res.out]
            /\ UNCHANGED <<chats, messages, nextRowid, supplied, ops, db, sync, send>>

NextContext == CtxLiveMessage \/ MessageContextCall

SpecContext == Init /\ [][NextContext]_vars

\* the stored rows of the chat strictly older / strictly newer than ts
CtxOlder(chatJID, ts) == {r \in messages : r.chat_jid = chatJID /\ r.ts < ts}
CtxNewer(chatJID, ts) == {r \in messages : r.chat_jid = chatJID /\ r.ts > ts}

CtxMin(a, b) == IF a < b THEN a ELSE b

\* what a successful MessageContext result must look like when it may hold
\* up to nb older and up to na newer messages
CtxShape(nb, na) ==
    LET out == call.out
        hits == {i \in 1..Len(out) : out[i].MsgID = call.id}
    IN  /\ Cardinality(hits) = 1
        /\ LET p == CHOOSE i \in hits : TRUE
               tts == unix(out[p].Timestamp)
               ids(I) == {out[i].MsgID : i \in I}
           IN  /\ \A i \in 1..Len(out) : out[i].ChatJID = call.jid
               /\ \A r \in RowsOf(messages, call.jid, call.id) : r.ts = tts
               /\ \A i, j \in 1..Len(out) :
                     i < j => unix(out[i].Timestamp) <= unix(out[j].Timestamp)
               /\ \A i \in 1..Len(out) :
                     /\ \E r \in RowsOf(messages, call.jid, out[i].MsgID) :
                           r.ts = unix(out[i].Timestamp)
                     /\ i < p => unix(out[i].Timestamp) < tts
                     /\ i > p => unix(out[i].Timestamp) > tts
               /\ \A i, j \in 1..Len(out) : i # j => out[i].MsgID # out[j].MsgID
               /\ p - 1 = CtxMin(nb, Cardinality(CtxOlder(call.jid, tts)))
               /\ Len(out) - p = CtxMin(na, Cardinality(CtxNewer(call.jid, tts)))
               /\ \A r \in CtxOlder(call.jid, tts) :
                     r.msg_id \notin ids(1..(p - 1)) =>
                        \A i \in 1..(p - 1) : r.ts <= unix(out[i].Timestamp)
               /\ \A r \in CtxNewer(call.jid, tts) :
                     r.msg_id \notin ids((p + 1)..Len(out)) =>
                        \A i \in (p + 1)..Len(out) : r.ts >= unix(out[i].Timestamp)

\* the example: three messages m1 < m2 < m3 of one chat, context of m2 with
\* one before and one after
CtxExample ==
    (/\ call.id = "m2" /\ call.before = 1 /\ call.after = 1
     /\ \E r1 \in RowsOf(messages, call.jid, "m1") :
        \E r2 \in RowsOf(messages, call.jid, "m2") :
        \E r3 \in RowsOf(messages, call.jid, "m3") : r1.ts < r2.ts /\ r2.ts < r3.ts)
    => /\ Len(call.out) = 3
       /\ call.out[1].MsgID = "m1" /\ call.out[2].MsgID = "m2" /\ call.out[3].MsgID = "m3"

\* C6 as stated: the result of MessageContext on a stored target is the up to
\* `before` nearest strictly older messages of the chat, oldest first, the
\* target once, the up to `after` nearest strictly newer ones; only messages of
\* the chat; at most before+after+1 entries; [m1, m2, m3] in the example.
C6_ContextAsStated ==
    (call.op = "MessageContext" /\ ~call.err) =>
        /\ CtxShape(call.before, call.after)
        /\ Len(call.out) <= call.before + call.after + 1
        /\ CtxExample

\* C6 (amended): as above with a negative before or after counted as 0: the
\* result has at most max(before,0)+max(after,0)+1 entries.
C6_ContextClamped ==
    (call.op = "MessageContext" /\ ~call.err) =>
        LET nb == IF call.before < 0 THEN 0 ELSE call.before
            na == IF call.after < 0 THEN 0 ELSE call.after
        IN  /\ CtxShape(nb, na)
            /\ Len(call.out) <= nb + na + 1
            /\ CtxExample

C6_Witness ==
    /\ call.op = "MessageContext" /\ ~call.err
    /\ call.id = "m2" /\ call.before = 1 /\ call.after = 1
    /\ Len(call.out) = 3
    /\ Cardinality(RowsOf(messages, "g1@g.us", "m1")) = 1

----------------------------------------------------------------------------
(* One Sync call. Time is counted in units of 250ms; a step of Sync takes no
   time, and time passes only while Sync is blocked in a select. *)

MaxTime == 14
MaxRequests == 2

PollShort == 1          \* 250 * time.Millisecond
PollLong == 4           \* 1 * time.Second
PollLongFrom == 8       \* opts.IdleExit >= 2*time.Second
DefaultIdleExit == 120  \* 30 * time.Second
ReconnectMin == 8       \* 2*time.Second
ReconnectMax == 120     \* 30*time.Second

\* the SyncOptions of the calls considered; the last is the call
\* BackfillHistory makes, with its AfterConnect callback
SyncConfigs ==
    { [Mode |-> "once", IdleExit |-> 2, AfterConnect |-> "none", WaitPerRequest |-> 0],
      [Mode |-> "once", IdleExit |-> 8, AfterConnect |-> "none", WaitPerRequest |-> 0],
      [Mode |-> "bootstrap", IdleExit |-> 0, AfterConnect |-> "none", WaitPerRequest |-> 0],
      [Mode |-> "", IdleExit |-> 0, AfterConnect |-> "none", WaitPerRequest |-> 0],
      [Mode |-> "once", IdleExit |-> 2, AfterConnect |-> "backfill", WaitPerRequest |-> 5] }

\* Sync up to the registration of the event handler: the defaults of the
\* options, lastEvent = now, an empty disconnected channel
SyncStart(opts) ==
    LET mode == IF opts.Mode = "" THEN "follow" ELSE opts.Mode
        idle == IF mode \in {"bootstrap", "once"} /\ opts.IdleExit <= 0
                THEN DefaultIdleExit ELSE opts.IdleExit
    IN  [pc |-> "connect", mode |-> mode, idleExit |-> idle,
         poll |-> IF idle >= PollLongFrom THEN PollLong ELSE PollShort,
         after |-> opts.AfterConnect, wait |-> opts.WaitPerRequest,
         now |-> 0, lastEvent |-> 0, cancelled |-> FALSE, cancelPc |-> "",
         cancelAt |-> 0, connected |-> FALSE, disconnected |-> 0,
         tick |-> FALSE, nextTick |-> 0, delay |-> 0, wakeAt |-> 0,
         resp |-> FALSE, reqLeft |-> 0, result |-> "none", reason |-> ""]

InitSync == StoreInit /\ send = NoSend /\ sync \in {SyncStart(o) : o \in SyncConfigs}

Return(s, res, why) == [s EXCEPT !.pc = "returned", !.result = res, !.reason = why]

\* entering the follow loop or, with a new ticker, the once/bootstrap loop
EnterLoop(s) ==
    [s EXCEPT !.pc = "loop", !.tick = FALSE, !.nextTick = s.now + s.poll]

\* a.Connect: it succeeds or fails
SyncConnect ==
    /\ sync.pc = "connect"
    /\ \/ sync' = [sync EXCEPT !.pc = "afterConnect", !.connected = TRUE]
       \/ sync' = Return(sync, "err", "connect")
    /\ UNCHANGED <<storeVars, send>>

\* one round of the backfill callback up to its wait: the oldest message
\* is read and the on-demand request sent, or one of the two fails
BackfillRequest(s) ==
    {[s EXCEPT !.pc = "backfillWait", !.resp = FALSE, !.reqLeft = @ - 1,
               !.wakeAt = s.now + s.wait],
     Return(s, "err", "afterConnect")}

\* opts.AfterConnect, if any, then the loop of the mode
SyncAfterConnect ==
    /\ sync.pc = "afterConnect"
    /\ IF sync.after = "backfill"
       THEN sync' \in BackfillRequest([sync EXCEPT !.reqLeft = MaxRequests])
       ELSE sync' = EnterLoop(sync)
    /\ UNCHANGED <<storeVars, send>>

\* the select of the backfill callback: ctx.Done, or a response (after which
\* the callback stops or requests again), or the timeout
BackfillCancelled ==
    /\ sync.pc = "backfillWait" /\ sync.cancelled
    /\ sync' = Return(sync, "err", "afterConnect")
    /\ UNCHANGED <<storeVars, send>>

BackfillResponse ==
    /\ sync.pc = "backfillWait" /\ sync.resp
    /\ \/ sync' = EnterLoop([sync EXCEPT !.resp = FALSE])
       \/ /\ sync.reqLeft > 0
          /\ sync' \in BackfillRequest(sync)
       \/ /\ sync.reqLeft = 0
          /\ sync' = EnterLoop([sync EXCEPT !.resp = FALSE])
    /\ UNCHANGED <<storeVars, send>>

BackfillTimeout ==
    /\ sync.pc = "backfillWait" /\ sync.now >= sync.wakeAt
    /\ sync' = Return(sync, "err", "afterConnect")
    /\ UNCHANGED <<storeVars, send>>

\* the select of the loops: case <-ctx.Done()
LoopCancelled ==
    /\ sync.pc = "loop" /\ sync.cancelled
    /\ sync' = Return(sync, "nil", "cancel")
    /\ UNCHANGED <<storeVars, send>>

\* a loop that returns on a disconnect signal instead of reconnecting
LoopDisconnectedReturns ==
    /\ sync.pc = "loop" /\ sync.disconnected = 1
    /\ sync' = Return([sync EXCEPT !.disconnected = 0], "err", "reconnect")
    /\ UNCHANGED <<storeVars, send>>

\* case <-disconnected: ReconnectWithBackoff(ctx, 2s, 30s) is entered
LoopDisconnected ==
    /\ sync.pc = "loop" /\ sync.disconnected = 1
    /\ sync' = [sync EXCEPT !.pc = "reconnect", !.disconnected = 0,
                            !.delay = ReconnectMin]
    /\ UNCHANGED <<storeVars, send>>

\* case <-ticker.C (once/bootstrap only): exit when idle for IdleExit
LoopTick ==
    /\ sync.pc = "loop" /\ sync.mode # "follow" /\ sync.tick
    /\ IF sync.now - sync.lastEvent >= sync.idleExit
       THEN sync' = Return([sync EXCEPT !.tick = FALSE], "nil", "idle")
       ELSE sync' = [sync EXCEPT !.tick = FALSE]
    /\ UNCHANGED <<storeVars, send>>

\* ReconnectWithBackoff, head of its loop: ctx.Err(), then Connect
Reconnect ==
    /\ sync.pc = "reconnect"
    /\ IF sync.cancelled
       THEN sync' = Return(sync, "err", "reconnect")
       ELSE \/ sync' = [sync EXCEPT !.pc = "loop", !.connected = TRUE]
            \/ sync' = [sync EXCEPT !.pc = "backoff", !.wakeAt = sync.now + sync.delay]
    /\ UNCHANGED <<storeVars, send>>

\* a backoff that only waits for time.After(delay)
BackoffIgnoresCancel(s) == FALSE

\* whether the backoff select takes case <-ctx.Done()
BackoffSeesCancel(s) == s.cancelled

\* the select of ReconnectWithBackoff: ctx.Done, or time.After(delay) and
\* the delay doubles up to maxDelay
BackoffWake ==
    /\ sync.pc = "backoff"
    /\ \/ /\ BackoffSeesCancel(sync)
          /\ sync' = Return(sync, "err", "reconnect")
       \/ /\ sync.now >= sync.wakeAt
          /\ sync' = [sync EXCEPT !.pc = "reconnect",
                                  !.delay = IF 2 * @ > ReconnectMax
                                            THEN ReconnectMax ELSE 2 * @]
    /\ UNCHANGED <<storeVars, send>>

SyncStep ==
    \/ SyncConnect \/ SyncAfterConnect
    \/ BackfillCancelled \/ BackfillResponse \/ BackfillTimeout
    \/ LoopCancelled \/ LoopDisconnected \/ LoopTick
    \/ Reconnect \/ BackoffWake

\* Sync can take a step without waiting
SyncReady ==
    \/ sync.pc \in {"connect", "afterConnect", "reconnect"}
    \/ sync.pc = "loop" /\ (sync.cancelled \/ sync.disconnected = 1
                            \/ (sync.mode # "follow" /\ sync.tick))
    \/ sync.pc = "backoff" /\ (BackoffSeesCancel(sync) \/ sync.now >= sync.wakeAt)
    \/ sync.pc = "backfillWait" /\ (sync.cancelled \/ sync.resp \/ sync.now >= sync.wakeAt)

\* the handler is registered until Sync returns
HandlerRegistered == sync.pc \notin {"none", "returned"}

\* any event reaches the handler: lastEvent.Store(now)
EventArrives ==
    /\ HandlerRegistered /\ sync.connected
    /\ sync' = [sync EXCEPT !.lastEvent = sync.now]
    /\ UNCHANGED <<storeVars, send>>

\* an on-demand history batch for the chat reaches both handlers
HistoryResponse ==
    /\ sync.pc = "backfillWait" /\ sync.connected
    /\ sync' = [sync EXCEPT !.lastEvent = sync.now, !.resp = TRUE]
    /\ UNCHANGED <<storeVars, send>>

\* events.Disconnected: a non-blocking send on the disconnected channel
Disconnected ==
    /\ HandlerRegistered /\ sync.connected
    /\ sync' = [sync EXCEPT !.lastEvent = sync.now, !.connected = FALSE,
                            !.disconnected = 1]
    /\ UNCHANGED <<storeVars, send>>

\* the caller cancels ctx
Cancel ==
    /\ HandlerRegistered /\ ~sync.cancelled
    /\ sync' = [sync EXCEPT !.cancelled = TRUE, !.cancelPc = sync.pc,
                            !.cancelAt = sync.now]
    /\ UNCHANGED <<storeVars, send>>

\* 250ms pass while Sync is blocked; the ticker of the once/bootstrap loop
\* delivers a tick each poll (its channel holds one tick)
TimePasses ==
    /\ HandlerRegistered /\ ~SyncReady /\ sync.now < MaxTime
    /\ LET ticking == /\ sync.mode # "follow"
                      /\ sync.pc \in {"loop", "reconnect", "backoff"}
                      /\ sync.now + 1 = sync.nextTick
       IN  sync' = [sync EXCEPT !.now = @ + 1,
                                !.tick = IF ticking THEN TRUE ELSE @,
                                !.nextTick = IF ticking THEN @ + sync.poll ELSE @]
    /\ UNCHANGED <<storeVars, send>>

NextSync ==
    \/ SyncStep
    \/ EventArrives \/ HistoryResponse \/ Disconnected \/ Cancel \/ TimePasses

SpecSync == InitSync /\ [][NextSync]_vars

SpecSyncFair == SpecSync /\ WF_vars(SyncStep)

\* C7: in once/bootstrap mode Sync has returned nil by lastEvent + IdleExit +
\* one polling interval; it never idle-exits with less than IdleExit since the
\* last event; and after a cancellation before the threshold it does not run
\* up to the threshold.
C7_IdleExitTiming ==
    sync.mode \in {"once", "bootstrap"} =>
        /\ sync.result # "nil" => sync.now <= sync.lastEvent + sync.idleExit + sync.poll
        /\ sync.reason = "idle" => sync.now - sync.lastEvent >= sync.idleExit
        /\ (sync.cancelled /\ sync.cancelAt < sync.lastEvent + sync.idleExit
            /\ sync.pc # "returned") => sync.now < sync.lastEvent + sync.idleExit

\* C8: once the context is cancelled Sync returns, whether it is in the idle
\* loop, in the reconnect backoff or in the backfill wait.
C8_CancelReturns ==
    (sync.pc # "none" /\ sync.cancelled) ~> (sync.pc = "returned")

C8_Witness ==
    /\ sync.pc = "returned" /\ sync.cancelled
    /\ sync.cancelPc = "backoff" /\ sync.cancelAt > 0
    /\ sync.now = sync.cancelAt /\ sync.now < sync.wakeAt

----------------------------------------------------------------------------
(* One send request: the client tries the gateway of the running sync
   process and falls back to a session of its own *)

\* the requests considered: --to, the kind, the message text (the caption
\* of a file), and whether the file can be read
SendRequests ==
    { [kind |-> "text", to |-> "c1@s.whatsapp.net", message |-> "hello", file |-> ""],
      [kind |-> "text", to |-> "c1@s.whatsapp.net", message |-> " hello ", file |-> ""],
      [kind |-> "text", to |-> "c1@s.whatsapp.net", message |-> " ", file |-> ""],
      [kind |-> "text", to |-> "", message |-> "hello", file |-> ""],
      [kind |-> "text", to |-> "?", message |-> "hello", file |-> ""],
      [kind |-> "file", to |-> "c1@s.whatsapp.net", message |-> "", file |-> "a.jpg"],
      [kind |-> "file", to |-> "c1@s.whatsapp.net", message |-> "", file |-> "missing"] }

\* wa.ParseUserOrJID succeeds
ParsesAsJID(to) == to \in ChatJIDs

\* the command is started: no gateway yet, the store lock free
SendStart(req) ==
    [req |-> req, pc |-> "start", result |-> "none",
     gw |-> "off", lock |-> "free", handler |-> "idle", response |-> "none",
     sendCalls |-> 0]

InitSend == StoreInit /\ sync = NoSync /\ send \in {SendStart(r) : r \in SendRequests}

\* the rows a successful file send writes
EchoFile(st, to, msgID, now, caption, known) ==
    LET chatName == ResolveChatName(to, known, "")
        c2 == UpsertChat(st.chats, to, chatKind(to), chatName, now)
        res == UpsertMessage(c2, st.messages, st.nextRowid,
                   [ChatJID |-> to, ChatName |-> chatName, MsgID |-> msgID,
                    SenderJID |-> "", SenderName |-> "me", Timestamp |-> now,
                    FromMe |-> TRUE, Text |-> caption, MediaType |-> "image",
                    MediaCaption |-> caption, Filename |-> "a.jpg",
                    MimeType |-> "image/jpeg", DirectPath |-> "/d1",
                    MediaKey |-> "k1", FileSHA256 |-> "h1",
                    FileEncSHA256 |-> "e1", FileLength |-> 10]
                   @@ ZeroParams(to, msgID))
    IN  [chats |-> c2, messages |-> res.messages, nextRowid |-> res.nextRowid]

\* a reply sent without the write to the store
EchoSkipped(req) == TheStore

\* the store after the echo of a successful send of the request
EchoOf(req) ==
    IF req.kind = "file"
    THEN EchoFile(TheStore, req.to, "m1", 1, req.message, "")
    ELSE EchoText(TheStore, req.to, "m1", 1, req.message, "")

StoreEcho(req) ==
    /\ chats' = EchoOf(req).chats
    /\ messages' = EchoOf(req).messages
    /\ nextRowid' = EchoOf(req).nextRowid
    /\ supplied' = [supplied EXCEPT ![req.to] = @ \cup {1}]
    /\ call' = [op |-> "SendEcho", jid |-> req.to, id |-> "m1",
                conflict |-> RowsOf(messages, req.to, "m1") # {}]
    /\ UNCHANGED ops

\* the sync process starts: it takes the store lock and binds the socket
GatewayStart ==
    /\ send.pc # "none" /\ send.gw = "off" /\ send.lock = "free"
    /\ send' = [send EXCEPT !.gw = "serving", !.lock = "gw"]
    /\ UNCHANGED <<storeVars, sync>>

\* the sync process ends: listener and connections are closed, the lock
\* is released
GatewayExit ==
    /\ send.gw = "serving"
    /\ send' = [send EXCEPT !.gw = "off", !.lock = "free", !.handler = "idle",
                            !.response = IF send.pc = "waiting" /\ @ = "none"
                                         THEN "closed" ELSE @]
    /\ UNCHANGED <<storeVars, sync>>

\* RunE up to trySendViaSocket's dial: the required flags, then the dial
\* and the request line
ClientDial ==
    /\ send.pc = "start"
    /\ IF send.req.to = ""
       THEN send' = [send EXCEPT !.pc = "done", !.result = "err"]
       ELSE IF send.gw = "serving"
       THEN send' = [send EXCEPT !.pc = "waiting", !.handler = "accepted"]
       ELSE send' = [send EXCEPT !.pc = "fallback"]
    /\ UNCHANGED <<storeVars, sync>>

\* handleSendConn up to the send: an error reply for a bad recipient or an
\* unreadable file, or for a failed upload, else the send call is made
GatewayHandle ==
    /\ send.gw = "serving" /\ send.handler = "accepted"
    /\ \/ /\ ~ParsesAsJID(send.req.to) \/ send.req.file = "missing"
          /\ send' = [send EXCEPT !.handler = "idle", !.response = "error"]
       \/ /\ ParsesAsJID(send.req.to) /\ send.req.file = "a.jpg"
          /\ send' = [send EXCEPT !.handler = "idle", !.response = "error"]
       \/ /\ ParsesAsJID(send.req.to) /\ send.req.file # "missing"
          /\ send' = [send EXCEPT !.handler = "sending", !.sendCalls = @ + 1]
    /\ UNCHANGED <<storeVars, sync>>

\* the send call returns an error: the reply is "send failed"
GatewaySendFailed ==
    /\ send.gw = "serving" /\ send.handler = "sending"
    /\ send' = [send EXCEPT !.handler = "idle", !.response = "error"]
    /\ UNCHANGED <<storeVars, sync>>

\* the send call returns an id: the echo is stored, then the success reply
GatewaySendOK ==
    /\ send.gw = "serving" /\ send.handler = "sending"
    /\ send' = [send EXCEPT !.handler = "idle", !.response = "success"]
    /\ StoreEcho(send.req)
    /\ UNCHANGED <<db, sync>>

\* what RunE does with the outcome of trySendViaSocket once the dial
\* succeeded: done on a success reply, else the direct path
AfterSocketReply(s) ==
    IF s.response = "success"
    THEN [s EXCEPT !.pc = "done", !.result = "ok"]
    ELSE [s EXCEPT !.pc = "fallback"]

\* the client reads the reply line, or the connection was closed
ClientReply ==
    /\ send.pc = "waiting" /\ send.response # "none"
    /\ send' = AfterSocketReply(send)
    /\ UNCHANGED <<storeVars, sync>>

\* the client's deadline on the connection expires before any reply
ClientDeadline ==
    /\ send.pc = "waiting" /\ send.response = "none"
    /\ send' = AfterSocketReply([send EXCEPT !.response = "timeout"])
    /\ UNCHANGED <<storeVars, sync>>

\* newApp with needLock: lock.Acquire fails fast when the lock is held
FallbackAcquire ==
    /\ send.pc = "fallback"
    /\ IF send.lock = "free"
       THEN send' = [send EXCEPT !.pc = "direct", !.lock = "cli"]
       ELSE send' = [send EXCEPT !.pc = "done", !.result = "err"]
    /\ UNCHANGED <<storeVars, sync>>

\* the direct path fails before the send: EnsureAuthed, Connect,
\* ParseUserOrJID, reading or uploading the file
DirectFails ==
    /\ send.pc = "direct"
    /\ send' = [send EXCEPT !.pc = "done", !.result = "err", !.lock = "free"]
    /\ UNCHANGED <<storeVars, sync>>

\* the direct path makes the send call
DirectSend ==
    /\ send.pc = "direct"
    /\ ParsesAsJID(send.req.to) /\ send.req.file # "missing"
    /\ send' = [send EXCEPT !.pc = "directSending", !.sendCalls = @ + 1]
    /\ UNCHANGED <<storeVars, sync>>

DirectSendFailed ==
    /\ send.pc = "directSending"
    /\ send' = [send EXCEPT !.pc = "done", !.result = "err", !.lock = "free"]
    /\ UNCHANGED <<storeVars, sync>>

DirectSendOK ==
    /\ send.pc = "directSending"
    /\ send' = [send EXCEPT !.pc = "done", !.result = "ok", !.lock = "free"]
    /\ StoreEcho(send.req)
    /\ UNCHANGED <<db, sync>>

NextSend ==
    \/ GatewayStart \/ GatewayExit \/ GatewayHandle
    \/ GatewaySendFailed \/ GatewaySendOK
    \/ ClientDial \/ ClientReply \/ ClientDeadline
    \/ FallbackAcquire \/ DirectFails \/ DirectSend
    \/ DirectSendFailed \/ DirectSendOK

SpecSend == InitSend /\ [][NextSend]_vars

\* C9: one send request leads to at most one send call on the session,
\* the gateway's and the client's own fallback counted together.
C9_AtMostOneSendCall ==
    send.pc # "none" => send.sendCalls <= 1

----------------------------------------------------------------------------
(* The socket path of one store directory and the gateways started on it *)

MaxStarts == 3

Gateways == {1, 2}

\* path: 0 when no file is at the socket path, else the gateway whose Listen
\* created the file; inst: where each gateway is; dial: the last dial
InitGateway ==
    /\ StoreInit /\ sync = NoSync
    /\ send = [pc |-> "gateways", path |-> 0,
               inst |-> [g \in Gateways |-> "off"],
               removedLive |-> [g \in Gateways |-> FALSE],
               dial |-> <<>>, starts |-> 0]

\* the gateway a dial of the path reaches, 0 when it is refused
Reaches(s) ==
    IF s.path # 0 /\ s.inst[s.path] = "serving"
    THEN s.path ELSE 0

\* StartSendServer, first half: os.Remove(sockPath), whatever is there
StartRemove ==
    \E g \in Gateways :
        /\ send.pc = "gateways" /\ send.inst[g] = "off" /\ send.starts < MaxStarts
        /\ send' = [send EXCEPT !.path = 0, !.inst[g] = "removed",
                                !.removedLive[g] = (Reaches(send) # 0),
                                !.starts = @ + 1]
        /\ UNCHANGED <<storeVars, sync>>

\* StartSendServer, second half: net.Listen fails when the path exists,
\* else it creates the socket file and the gateway serves
StartListen ==
    \E g \in Gateways :
        /\ send.pc = "gateways" /\ send.inst[g] = "removed"
        /\ IF send.path # 0
           THEN send' = [send EXCEPT !.inst[g] = "off"]
           ELSE send' = [send EXCEPT !.path = g, !.inst[g] = "serving"]
        /\ UNCHANGED <<storeVars, sync>>

\* ctx.Done: the listener is closed, which unlinks the socket path
CtxDone ==
    \E g \in Gateways :
        /\ send.pc = "gateways" /\ send.inst[g] = "serving"
        /\ send' = [send EXCEPT !.path = 0, !.inst[g] = "closed"]
        /\ UNCHANGED <<storeVars, sync>>

\* cleanup(): listener.Close() and os.Remove(sockPath)
Cleanup ==
    \E g \in Gateways :
        /\ send.pc = "gateways" /\ send.inst[g] \in {"serving", "closed"}
        /\ send' = [send EXCEPT !.path = 0, !.inst[g] = "off"]
        /\ UNCHANGED <<storeVars, sync>>

\* the process of a gateway dies: its socket file stays behind
Crash ==
    \E g \in Gateways :
        /\ send.pc = "gateways" /\ send.inst[g] = "serving"
        /\ send' = [send EXCEPT !.inst[g] = "off"]
        /\ UNCHANGED <<storeVars, sync>>

\* a client dials the socket path
Dial ==
    /\ send.pc = "gateways"
    /\ send' = [send EXCEPT !.dial = <<Reaches(send)>>]
    /\ UNCHANGED <<storeVars, sync>>

NextGateway == StartRemove \/ StartListen \/ CtxDone \/ Cleanup \/ Crash \/ Dial

SpecGateway == InitGateway /\ [][NextGateway]_vars

\* C10: at most one gateway is bound to the socket path, every bound gateway
\* is the one a dial reaches, and StartSendServer removes only a stale socket
\* file, never the socket of a live gateway.
C10_OneReachableGateway ==
    send.pc = "gateways" =>
        /\ Cardinality({g \in Gateways : send.inst[g] = "serving"}) <= 1
        /\ \A g \in Gateways : send.inst[g] = "serving" => Reaches(send) = g
        /\ \A g \in Gateways : ~send.removedLive[g]

\* ---------------------------------------------------------------------
\* The gateway's echo of a sent message (SpecSend)

\* the rows of the store for the message the gateway sent, from me, with
\* the given text column
C11SentRows(text) ==
    { r \in RowsOf(messages, send.req.to, "m1") :
        r.from_me = 1 /\ r.text = text }

\* the body of the request as it was sent (no text is the NULL column)
C11SentBody == IF send.req.message = "" THEN NULL ELSE send.req.message

----------------------------------------------------------------------------
(* SpecDisplay: the display text storeParsedMessage derives.  One target
   message m1 is written to chat c1 (or none is), by ingestion or by a send
   echo, then one parsed message m2 is ingested: plain, media, a reply or a
   reaction. *)

DisplayChat == "c1@s.whatsapp.net"

\* Media.Type as extractWAProto sets it
MediaKinds == {"image", "video", "gif", "audio", "document", "sticker"}

\* a media descriptor of the kind, with the caption
MediaOf(kind, caption) ==
    [Type |-> kind, Caption |-> caption, Filename |-> "", MimeType |-> "",
     DirectPath |-> "/d1", MediaKey |-> "k1", FileSHA256 |-> "h1",
     FileEncSHA256 |-> "e1", FileLength |-> 10]

\* what extractWAProto reads of the message itself: conversation or
\* extended text, or a media body whose caption is also the text
ContentBodies ==
    { [Text |-> t, Media |-> NoMedia] : t \in {"reply text", " hello ", " ", ""} }
    \cup { [Text |-> c, Media |-> MediaOf(k, c)] :
             k \in MediaKinds, c \in {"", "hello"} }

\* the context info: no reply, or the quoted id with the quoted message's
\* display text (trimmed by extractWAProto), "" when none is carried
ReplyInfos ==
    { [ReplyToID |-> "", ReplyToDisplay |-> ""],
      [ReplyToID |-> "m1", ReplyToDisplay |-> ""],
      [ReplyToID |-> "m1", ReplyToDisplay |-> "quoted text"],
      [ReplyToID |-> "m9", ReplyToDisplay |-> ""] }

\* a reaction: the target's id and the emoji (none for a removed or an
\* undecrypted reaction); a reaction carries no text and no media
ReactionBodies ==
    { [Text |-> "", Media |-> NoMedia, ReplyToID |-> "", ReplyToDisplay |-> "",
       ReactionToID |-> t, ReactionEmoji |-> e] :
         t \in {"m1", "m9"}, e \in {"+", ""} }

DisplayBodies ==
    { c @@ r @@ [ReactionToID |-> "", ReactionEmoji |-> ""] :
        c \in ContentBodies, r \in ReplyInfos }
    \cup ReactionBodies

DisplaySender ==
    [SenderJID |-> "b@s.whatsapp.net", FromMe |-> FALSE, PushName |-> "Bob"]

\* the ways the target m1 got into the store
TargetWrites ==
    { storeParsedMessage(TheStore,
          ParsedMessage(DisplayChat, "m1", 1,
              c @@ [ReplyToID |-> "", ReplyToDisplay |-> "",
                    ReactionToID |-> "", ReactionEmoji |-> ""] @@ DisplaySender),
          "", "") :
        c \in { [Text |-> " hello ", Media |-> NoMedia],
                [Text |-> "", Media |-> MediaOf("image", "")] } }
    \cup { EchoText(TheStore, DisplayChat, "m1", 1, m, "") : m \in {"hello", " "} }
    \cup { EchoFile(TheStore, DisplayChat, "m1", 1, "", "") }

\* the target is written, or is not in the store at all
DisplayTarget ==
    /\ ops = 0
    /\ \/ \E w \in TargetWrites :
             /\ chats' = w.chats
             /\ messages' = w.messages
             /\ nextRowid' = w.nextRowid
       \/ UNCHANGED <<chats, messages, nextRowid>>
    /\ ops' = 1
    /\ UNCHANGED <<call, supplied, db, sync, send>>

\* events.Message for m2; the call records the parsed message and the
\* rows of the target before the write
DisplayMessage ==
    /\ ops = 1
    /\ \E t \in Times \ {ZeroTime}, body \in DisplayBodies :
         LET pm == ParsedMessage(DisplayChat, "m2", t, body @@ DisplaySender)
             res == storeParsedMessage(TheStore, pm, "", "")
         IN  /\ chats' = res.chats
             /\ messages' = res.messages
             /\ nextRowid' = res.nextRowid
             /\ call' = [op |-> "display", pm |-> pm,
                         target |-> RowsOf(messages, DisplayChat,
                                           IF pm.ReactionToID # ""
                                           THEN pm.ReactionToID ELSE pm.ReplyToID)]
    /\ ops' = 2
    /\ UNCHANGED <<supplied, db, sync, send>>

NextDisplay == DisplayTarget \/ DisplayMessage

SpecDisplay == Init /\ [][NextDisplay]_vars

\* the display text column of the message just ingested
DisplayStored ==
    LET rows == RowsOf(messages, DisplayChat, call.pm.ID)
    IN  IF rows = {} THEN NULL ELSE (CHOOSE r \in rows : TRUE).display_text

\* the text a target resolves to from the columns of its stored row: the
\* display text, else the raw text, else the label of its media, else
\* the literal fallback
ResolvedTarget ==
    IF call.target = {} THEN "message"
    ELSE LET r == CHOOSE x \in call.target : TRUE
         IN  IF r.display_text # NULL THEN r.display_text
             ELSE IF r.text # NULL THEN r.text
             ELSE IF r.media_type # NULL THEN "Sent " \o r.media_type
             ELSE "message"

DisplayIsReaction ==
    call.op = "display"
    /\ (call.pm.ReactionToID # "" \/ call.pm.ReactionEmoji # "")

DisplayIsReply ==
    call.op = "display" /\ ~DisplayIsReaction /\ call.pm.ReplyToID # ""

DisplayIsPlain ==
    call.op = "display" /\ ~DisplayIsReaction /\ call.pm.ReplyToID = ""

\* C12: a reply is stored with display text "> " Q newline B, where Q is
\* the quoted text carried inline when there is one, else what the stored
\* target resolves to (display text, raw text, media label, "message"),
\* and B is the reply's own base text, "(message)" when it has none.
C12_ReplyDisplayText ==
    DisplayIsReply =>
        LET Q == IF call.pm.ReplyToDisplay # "" THEN call.pm.ReplyToDisplay
                 ELSE ResolvedTarget
            B == IF call.pm.Media # NoMedia THEN "Sent " \o call.pm.Media.Type
                 ELSE IF TrimSpace(call.pm.Text) # "" THEN TrimSpace(call.pm.Text)
                 ELSE "(message)"
        IN  DisplayStored = "> " \o Q \o "\n" \o B

\* a reply without inline quoted text to a target stored by a send echo,
\* which has raw text and no display text
C12_Witness ==
    /\ DisplayIsReply
    /\ call.pm.ReplyToDisplay = "" /\ call.pm.Text = "reply text"
    /\ \E r \in call.target : r.display_text = NULL /\ r.text = "hello"
    /\ DisplayStored = "> hello\nreply text"

\* the spec's own example: inline quoted text and reply text
C12Example ==
    /\ DisplayIsReply
    /\ call.pm.ReplyToDisplay = "quoted text" /\ call.pm.Text = "reply text"
    /\ DisplayStored = "> quoted text\nreply text"

\* C13: a reaction with emoji E to target T is stored with display text
\* "Reacted E to D", D being what T's stored row resolves to (display text,
\* raw text, media label), "message" when nothing resolves.
C13_ReactionDisplayText ==
    (DisplayIsReaction /\ call.pm.ReactionEmoji # "") =>
        DisplayStored = "Reacted " \o call.pm.ReactionEmoji \o " to "
                            \o ResolvedTarget

\* the reaction to a stored message whose display text is "hello"
C13_Witness ==
    /\ DisplayIsReaction /\ call.pm.ReactionEmoji = "+"
    /\ \E r \in call.target : r.display_text = "hello"
    /\ DisplayStored = "Reacted + to hello"

\* the reaction to a target that is not in the store
C13Unresolved ==
    /\ DisplayIsReaction /\ call.pm.ReactionEmoji = "+"
    /\ call.target = {}
    /\ DisplayStored = "Reacted + to message"

\* C14 as stated: a captionless media message that is neither a reaction
\* nor a reply is stored with display text "Sent <kind>", and a plain text
\* message with its trimmed text.
C14_PlainDisplayText ==
    DisplayIsPlain =>
        /\ (call.pm.Media # NoMedia /\ call.pm.Media.Caption = "")
              => DisplayStored = "Sent " \o call.pm.Media.Type
        /\ (call.pm.Media = NoMedia /\ call.pm.Text # "")
              => DisplayStored = TrimSpace(call.pm.Text)

\* C14 as the code has it: captionless media is stored with display text
\* "Sent <kind>"; a plain text message with its trimmed text, and with
\* "(message)" when the trimmed text is empty.
C14_PlainDisplayTextOrFallback ==
    DisplayIsPlain =>
        /\ (call.pm.Media # NoMedia /\ call.pm.Media.Caption = "")
              => DisplayStored = "Sent " \o call.pm.Media.Type
        /\ (call.pm.Media = NoMedia /\ call.pm.Text # "")
              => DisplayStored = IF TrimSpace(call.pm.Text) = "" THEN "(message)"
                                 ELSE TrimSpace(call.pm.Text)

C14_Witness ==
    /\ DisplayIsPlain
    /\ call.pm.Media # NoMedia /\ call.pm.Media.Type = "gif"
    /\ call.pm.Media.Caption = ""
    /\ DisplayStored = "Sent gif"

\* a text message of white space only
C14Blank ==
    /\ DisplayIsPlain
    /\ call.pm.Media = NoMedia /\ call.pm.Text = " "
    /\ DisplayStored = "(message)"

----------------------------------------------------------------------------
(* SpecSearch: SearchMessages on a store opened with or without the
   full-text index.  Three messages are ingested in a fixed order of
   keys, and searches are made in between. *)

\* the characters of the strings that are searched or searched for; any
\* other string of the model counts as one character of its own
Chars(s) ==
    CASE s = "" -> <<>>
      [] s = "abc" -> <<"a", "b", "c">>
      [] s = "ABC" -> <<"A", "B", "C">>
      [] s = "axc" -> <<"a", "x", "c">>
      [] s = "a_c" -> <<"a", "_", "c">>
      [] s = "b" -> <<"b">>
      [] s = "Bob" -> <<"B", "o", "b">>
      [] s = "me" -> <<"m", "e">>
      [] OTHER -> <<s>>

\* SQLite's LOWER() and LIKE fold the 26 ASCII letters only
AsciiLower(c) ==
    CASE c = "A" -> "a"
      [] c = "B" -> "b"
      [] c = "C" -> "c"
      [] OTHER -> c

\* x LIKE pattern on characters: % matches any run, _ any one character,
\* anything else itself without regard to ASCII case
RECURSIVE Like(_, _)
Like(pattern, x) ==
    IF pattern = <<>> THEN x = <<>>
    ELSE IF Head(pattern) = "%"
    THEN Like(Tail(pattern), x) \/ (x # <<>> /\ Like(pattern, Tail(x)))
    ELSE /\ x # <<>>
         /\ Head(pattern) = "_" \/ AsciiLower(Head(pattern)) = AsciiLower(Head(x))
         /\ Like(Tail(pattern), Tail(x))

\* LOWER(col) LIKE LOWER(needle); NULL for a NULL column, which is not true
LowerLike(col, needle) ==
    col # NULL /\ Like(needle, Chars(col))

\* COALESCE(col, '')
Coalesce(col) == IF col = NULL THEN "" ELSE col

\* c.name of the LEFT JOIN
JoinedChatName(chatTbl, m) ==
    IF m.chat_jid \in DOMAIN chatTbl /\ chatTbl[m.chat_jid] # NoRow
    THEN chatTbl[m.chat_jid].name ELSE NULL

\* a pointer to a time: nil, or the time
NilTime == <<>>

\* the WHERE clauses applyMessageFilters appends
applyMessageFilters(m, p) ==
    /\ TrimSpace(p.ChatJID) # "" => m.chat_jid = p.ChatJID
    /\ TrimSpace(p.From) # "" => (m.sender_jid # NULL /\ m.sender_jid = p.From)
    /\ p.After # NilTime => m.ts > unix(p.After[1])
    /\ p.Before # NilTime => m.ts < unix(p.Before[1])
    /\ TrimSpace(p.Type) # "" => Coalesce(m.media_type) = p.Type

\* the columns a search returns
SearchRow(chatTbl, m) ==
    [ChatJID |-> m.chat_jid,
     ChatName |-> Coalesce(JoinedChatName(chatTbl, m)),
     MsgID |-> m.msg_id,
     SenderJID |-> Coalesce(m.sender_jid),
     Timestamp |-> fromUnix(m.ts),
     FromMe |-> m.from_me # 0,
     Text |-> Coalesce(m.text),
     MediaType |-> Coalesce(m.media_type)]

\* searchLIKE: the rows one of whose six columns is LIKE %query%, that pass
\* the filters, ORDER BY ts DESC LIMIT ?
searchLIKE(chatTbl, msgs, p) ==
    LET needle == <<"%">> \o Chars(p.Query) \o <<"%">>
        hits == { m \in msgs :
                    /\ \/ LowerLike(m.text, needle)
                       \/ LowerLike(m.media_caption, needle)
                       \/ LowerLike(m.filename, needle)
                       \/ LowerLike(Coalesce(m.chat_name), needle)
                       \/ LowerLike(Coalesce(m.sender_name), needle)
                       \/ LowerLike(Coalesce(JoinedChatName(chatTbl, m)), needle)
                    /\ applyMessageFilters(m, p) }
    IN  { [err |-> FALSE,
           out |-> [i \in DOMAIN Limit(s, p.Limit) |-> SearchRow(chatTbl, s[i])]] :
            s \in OrderByTs(hits, TRUE) }

\* searchFTS: what MATCH selects and how bm25 ranks is the index's; the
\* query fixes that the rows are distinct, pass the filters and are at
\* most LIMIT
searchFTS(chatTbl, msgs, p) ==
    LET pass == { m \in msgs : applyMessageFilters(m, p) }
    IN  UNION { { [err |-> FALSE,
                   out |-> [i \in DOMAIN Limit(s, p.Limit) |-> SearchRow(chatTbl, s[i])]] :
                    s \in OrderByTs(S, TRUE) \cup OrderByTs(S, FALSE) } :
                S \in SUBSET pass }

DefaultSearchLimit == 50

\* SearchMessages: the set of results the call can return
SearchMessages(ftsEnabled, chatTbl, msgs, p) ==
    IF TrimSpace(p.Query) = "" THEN { [err |-> TRUE, out |-> <<>>] }
    ELSE LET q == [p EXCEPT !.Limit = IF p.Limit <= 0 THEN DefaultSearchLimit
                                      ELSE p.Limit]
         IN  IF ftsEnabled THEN searchFTS(chatTbl, msgs, q)
             ELSE searchLIKE(chatTbl, msgs, q)

HasFTS == db.ftsEnabled

\* Open: the schema is created; CREATE VIRTUAL TABLE ... USING fts5 fails
\* where the module is missing, the trigger script can fail, and in both
\* cases the store opens with ftsEnabled false
InitSearch ==
    /\ chats = [j \in ChatJIDs |-> NoRow]
    /\ messages = {}
    /\ nextRowid = 1
    /\ call = NoCall
    /\ supplied = [j \in ChatJIDs |-> {}]
    /\ ops = 0
    /\ \E fts \in {"ok", "create failed", "triggers failed"} :
          db = [pc |-> "open", fts |-> fts, ftsEnabled |-> (fts = "ok")]
    /\ sync = NoSync /\ send = NoSend

SearchTexts == {"abc", "ABC", "axc"}

SearchKeys ==
    << <<"c1@s.whatsapp.net", "m1">>, <<"g1@g.us", "m1">>,
       <<"c1@s.whatsapp.net", "m2">> >>

NoReplyNoReaction ==
    [ReplyToID |-> "", ReplyToDisplay |-> "", ReactionToID |-> "",
     ReactionEmoji |-> ""]

\* the message of a key: a text from Bob in the direct chat, an image of
\* mine in the group, with or without a caption
SearchBodies(key) ==
    IF key[1] = "g1@g.us"
    THEN { [SenderJID |-> "", FromMe |-> TRUE, PushName |-> "", Text |-> c,
            Media |-> MediaOf("image", c)] @@ NoReplyNoReaction :
              c \in {"", "abc"} }
    ELSE { [SenderJID |-> "b@s.whatsapp.net", FromMe |-> FALSE,
            PushName |-> "Bob", Text |-> t, Media |-> NoMedia]
               @@ NoReplyNoReaction :
              t \in SearchTexts }

\* a message is ingested: every store operation works whatever became of
\* the index (no trigger exists when the index could not be provisioned)
SearchIngest ==
    /\ ops < Len(SearchKeys)
    /\ \E t \in Times \ {ZeroTime}, body \in SearchBodies(SearchKeys[ops + 1]) :
         LET key == SearchKeys[ops + 1]
             res == storeParsedMessage(TheStore,
                        ParsedMessage(key[1], key[2], t, body), "", "")
         IN  /\ chats' = res.chats
             /\ messages' = res.messages
             /\ nextRowid' = res.nextRowid
             /\ call' = [op |-> "store", err |-> res.err]
    /\ ops' = ops + 1
    /\ UNCHANGED <<supplied, db, sync, send>>

SearchQueries == {"abc", "a_c", "%", "b", " "}

SearchFilters ==
    LET none == [ChatJID |-> "", From |-> "", Type |-> "",
                 Before |-> NilTime, After |-> NilTime]
    IN  { none,
          [none EXCEPT !.ChatJID = "c1@s.whatsapp.net"],
          [none EXCEPT !.From = "b@s.whatsapp.net"],
          [none EXCEPT !.Type = "image"],
          [none EXCEPT !.After = <<1>>],
          [none EXCEPT !.Before = <<2>>],
          [none EXCEPT !.ChatJID = "c1@s.whatsapp.net",
                       !.From = "b@s.whatsapp.net", !.After = <<ZeroTime>>,
                       !.Before = <<MaxTs>>] }

SearchLimits == {0, 1}

\* a search of the store as it is; it changes nothing, so one search is
\* made of each state of the store
SearchMessagesCall ==
    /\ db.pc = "open" /\ call.op # "search"
    /\ \E q \in SearchQueries, f \in SearchFilters, k \in SearchLimits :
         LET p == [Query |-> q, Limit |-> k] @@ f
         IN  \E r \in SearchMessages(db.ftsEnabled, chats, messages, p) :
                call' = [op |-> "search", p |-> p, err |-> r.err, out |-> r.out]
    /\ UNCHANGED <<chats, messages, nextRowid, supplied, ops, db, sync, send>>

NextSearch == SearchIngest \/ SearchMessagesCall

SpecSearch == InitSearch /\ [][NextSearch]_vars

\* the characters of a query or a column without regard to case
C15Fold(x) == [i \in DOMAIN x |-> AsciiLower(x[i])]

\* q occurs in x as a run of characters
C15Contains(q, x) ==
    \E i \in 0..(Len(x) - Len(q)) :
        \A j \in 1..Len(q) : C15Fold(q)[j] = C15Fold(x)[i + j]

\* the searched fields of a row contain the query
C15Matches(m, query) ==
    \E col \in {m.text, m.media_caption, m.filename, m.chat_name,
                m.sender_name, JoinedChatName(chats, m)} :
        col # NULL /\ C15Contains(Chars(query), Chars(col))

\* the stored rows that pass the filters of the call and contain its query
C15Expected ==
    { m \in messages : applyMessageFilters(m, call.p) /\ C15Matches(m, call.p.Query) }

C15Cut == IF call.p.Limit <= 0 THEN DefaultSearchLimit ELSE call.p.Limit

C15Returned == { <<call.out[i].ChatJID, call.out[i].MsgID>> : i \in DOMAIN call.out }

C15Fallback == call.op = "search" /\ ~HasFTS /\ ~call.err

\* C15: on a store opened without the full-text index HasFTS is false,
\* storing succeeds, and a search returns only stored messages that pass
\* all filters and contain the query, without regard to case, in a
\* searched field, newest first, at most Limit, none missing unless cut.
C15_FallbackSearch ==
    /\ db.pc = "open" /\ db.fts # "ok" => ~HasFTS
    /\ call.op = "store" => ~call.err
    /\ C15Fallback =>
          /\ C15Returned \subseteq { <<m.chat_jid, m.msg_id>> : m \in C15Expected }
          /\ \A i, j \in DOMAIN call.out :
                i < j => call.out[i].Timestamp >= call.out[j].Timestamp
          /\ Len(call.out) <= C15Cut
          /\ Len(call.out) < C15Cut =>
                { <<m.chat_jid, m.msg_id>> : m \in C15Expected } \subseteq C15Returned

\* the parts of C15 apart from "only messages that contain the query"
C15OrderedCutComplete ==
    /\ db.pc = "open" /\ db.fts # "ok" => ~HasFTS
    /\ call.op = "store" => ~call.err
    /\ C15Fallback =>
          /\ \A i \in DOMAIN call.out :
                \E m \in messages :
                   /\ <<m.chat_jid, m.msg_id>> = <<call.out[i].ChatJID, call.out[i].MsgID>>
                   /\ applyMessageFilters(m, call.p)
          /\ \A i, j \in DOMAIN call.out :
                i < j => call.out[i].Timestamp >= call.out[j].Timestamp
          /\ Len(call.out) <= C15Cut
          /\ Len(call.out) < C15Cut =>
                { <<m.chat_jid, m.msg_id>> : m \in C15Expected } \subseteq C15Returned

\* without a wild card in the query the fallback returns substring matches only
C15NoWildcard ==
    (C15Fallback /\ call.p.Query \notin {"a_c", "%"}) =>
        C15Returned \subseteq { <<m.chat_jid, m.msg_id>> : m \in C15Expected }

----------------------------------------------------------------------------
(* SpecGroups: the groups and group_participants tables.  db.groups is
   the set of jids in groups, db.participants the set of rows of
   group_participants. *)

MaxParticipants == 2

GroupJIDs == {"g1@g.us", "g2@g.us"}

\* the members a caller passes: an admin, and a member whose role is blank
\* or empty
GroupMembers ==
    { [UserJID |-> "u1@s.whatsapp.net", Role |-> "admin"],
      [UserJID |-> "u2@s.whatsapp.net", Role |-> " "],
      [UserJID |-> "u2@s.whatsapp.net", Role |-> ""] }

ParticipantLists ==
    UNION { [1..n -> GroupMembers] : n \in 0..MaxParticipants }

\* where a statement of the transaction is made to fail by the database;
\* i is the index of the failing INSERT
TxFaults ==
    { [at |-> a, i |-> 0] : a \in {"none", "begin", "delete", "prepare", "commit"} }
    \cup { [at |-> "insert", i |-> i] : i \in 1..MaxParticipants }

\* the table after the deferred function of a failed call, without its Rollback
NoRollback(before, working) == working

\* tx.Rollback (and the driver's ROLLBACK after a failed COMMIT): the
\* table as it was at Begin
Rollback(before, working) == before

\* the INSERTs of the loop from index i on, stopping at the first error:
\* the fault, the PRIMARY KEY (group_jid, user_jid), or the FOREIGN KEY
RECURSIVE InsertParticipants(_, _, _, _, _, _)
InsertParticipants(working, groups, groupJID, participants, i, fault) ==
    IF i > Len(participants) THEN [err |-> FALSE, table |-> working]
    ELSE LET p == participants[i]
             role == IF TrimSpace(p.Role) = "" THEN "member" ELSE TrimSpace(p.Role)
             row == [group_jid |-> groupJID, user_jid |-> p.UserJID, role |-> role]
         IN  IF \/ fault.at = "insert" /\ fault.i = i
                \/ \E r \in working : r.group_jid = groupJID /\ r.user_jid = p.UserJID
                \/ groupJID \notin groups
             THEN [err |-> TRUE, table |-> working]
             ELSE InsertParticipants(working \cup {row}, groups, groupJID,
                                     participants, i + 1, fault)

\* the transaction without its DELETE
AddGroupParticipants(table, groups, groupJID, participants, fault) ==
    LET ins == InsertParticipants(table, groups, groupJID, participants, 1, fault)
    IN  IF fault.at \in {"begin", "delete", "prepare"} \/ ins.err
           \/ fault.at = "commit"
        THEN [err |-> TRUE, table |-> table]
        ELSE [err |-> FALSE, table |-> ins.table]

\* ReplaceGroupParticipants: Begin, DELETE, Prepare, the INSERTs, Commit
ReplaceGroupParticipants(table, groups, groupJID, participants, fault) ==
    LET deleted == { r \in table : r.group_jid # groupJID }
        ins == InsertParticipants(deleted, groups, groupJID, participants, 1, fault)
    IN  IF fault.at = "begin" THEN [err |-> TRUE, table |-> table]
        ELSE IF fault.at = "delete"
        THEN [err |-> TRUE, table |-> Rollback(table, table)]
        ELSE IF fault.at = "prepare"
        THEN [err |-> TRUE, table |-> Rollback(table, deleted)]
        ELSE IF ins.err
        THEN [err |-> TRUE, table |-> Rollback(table, ins.table)]
        ELSE IF fault.at = "commit"
        THEN [err |-> TRUE, table |-> Rollback(table, ins.table)]
        ELSE [err |-> FALSE, table |-> ins.table]

InitGroups ==
    /\ chats = [j \in ChatJIDs |-> NoRow]
    /\ messages = {}
    /\ nextRowid = 1
    /\ call = NoCall
    /\ supplied = [j \in ChatJIDs |-> {}]
    /\ ops = 0
    /\ db = [pc |-> "open", groups |-> {}, participants |-> {}]
    /\ sync = NoSync /\ send = NoSend

\* UpsertGroup: the group's row exists from now on
UpsertGroupCall ==
    /\ db.pc = "open"
    /\ \E g \in GroupJIDs :
          /\ g \notin db.groups
          /\ db' = [db EXCEPT !.groups = @ \cup {g}]
          /\ call' = [op |-> "group", group |-> g]
    /\ UNCHANGED <<chats, messages, nextRowid, supplied, ops, sync, send>>

ReplaceGroupParticipantsCall ==
    /\ db.pc = "open"
    /\ \E g \in GroupJIDs, ps \in ParticipantLists, fault \in TxFaults :
          LET res == ReplaceGroupParticipants(db.participants, db.groups, g, ps, fault)
          IN  /\ db' = [db EXCEPT !.participants = res.table]
              /\ call' = [op |-> "replace", group |-> g, participants |-> ps,
                          fault |-> fault, err |-> res.err,
                          before |-> db.participants]
    /\ UNCHANGED <<chats, messages, nextRowid, supplied, ops, sync, send>>

NextGroups == UpsertGroupCall \/ ReplaceGroupParticipantsCall

SpecGroups == InitGroups /\ [][NextGroups]_vars

\* the rows the call was asked to put in place of the group's
C16NewRows ==
    { [group_jid |-> call.group, user_jid |-> call.participants[i].UserJID,
       role |-> IF call.participants[i].Role \in {" ", ""} THEN "member"
                ELSE call.participants[i].Role] :
        i \in DOMAIN call.participants }

\* C16: ReplaceGroupParticipants is all or nothing.  After an error the
\* table is what it was before the call (also when the DELETE had already
\* been applied); after success the group's rows are exactly the new
\* ones and the rows of other groups are untouched.
C16_ReplaceAllOrNothing ==
    call.op = "replace" =>
        IF call.err THEN db.participants = call.before
        ELSE db.participants =
                 { r \in call.before : r.group_jid # call.group } \cup C16NewRows

\* a call that failed at an INSERT after its DELETE removed rows
C16_Witness ==
    /\ call.op = "replace" /\ call.err
    /\ call.fault.at = "insert" /\ call.fault.i = 2
    /\ Len(call.participants) = 2
    /\ \E r \in call.before : r.group_jid = call.group
    /\ db.participants = call.before

\* a list that names a user twice fails on the primary key
C16Duplicate ==
    /\ call.op = "replace" /\ call.err /\ call.fault.at = "none"
    /\ call.group \in db.groups
    /\ \E r \in call.before : r.group_jid = call.group

----------------------------------------------------------------------------
(* SpecPairing: Sync and BackfillHistory up to and after Connect, for a
   session that is or is not authenticated.  sync.handlers is the set of
   event handlers registered with the session, sync.qr whether a QR
   channel was asked for. *)

MaxPairEvents == 2

\* who calls Sync: `wacli sync` (documented as never showing a QR code),
\* `wacli auth` (pairing allowed), BackfillHistory
PairCallers == {"sync", "auth", "backfill"}

\* SyncOptions.AllowQR as the caller sets it
AllowQROf(caller) == caller = "auth"

PairStart(caller, authed) ==
    [pc |-> "start", caller |-> caller, allowQR |-> AllowQROf(caller),
     authed |-> authed, authed0 |-> authed, handlers |-> {}, qr |-> FALSE,
     connected |-> FALSE, result |-> "none", reason |-> "", events |-> 0]

InitPairing ==
    /\ StoreInit /\ send = NoSend
    /\ sync \in { PairStart(c, a) : c \in PairCallers, a \in BOOLEAN }

\* a return of Sync, and of BackfillHistory around it: the deferred
\* RemoveEventHandler calls have run
PairReturn(s, res, why) ==
    [s EXCEPT !.pc = "returned", !.result = res, !.reason = why,
              !.handlers = {}, !.connected = FALSE]

\* a Connect that goes on whether or not the session is authenticated
ConnectNeverRefuses(authed, allowQR) == FALSE

\* Client.Connect: not authenticated and pairing not allowed
ConnectRefuses(authed, allowQR) == ~authed /\ ~allowQR

\* BackfillHistory before its call of Sync: EnsureAuthed, then its own
\* handler; the other callers call Sync at once
PairEnter ==
    /\ sync.pc = "start"
    /\ IF sync.caller = "backfill"
       THEN IF ~sync.authed
            THEN sync' = PairReturn(sync, "err", "not authenticated")
            ELSE sync' = [sync EXCEPT !.pc = "sync", !.handlers = @ \cup {"backfill"}]
       ELSE sync' = [sync EXCEPT !.pc = "sync"]
    /\ UNCHANGED <<storeVars, send>>

\* Sync up to Connect: OpenWA fails, or the handler is registered
PairSyncRegister ==
    /\ sync.pc = "sync"
    /\ \/ sync' = PairReturn(sync, "err", "open")
       \/ sync' = [sync EXCEPT !.pc = "connect", !.handlers = @ \cup {"sync"}]
    /\ UNCHANGED <<storeVars, send>>

\* Client.Connect: the refusal, else the QR channel for a session that is
\* not authenticated, then ConnectContext, which can fail
PairConnect ==
    /\ sync.pc = "connect"
    /\ IF ConnectRefuses(sync.authed, sync.allowQR)
       THEN sync' = PairReturn(sync, "err", "not authenticated")
       ELSE \/ sync' = PairReturn([sync EXCEPT !.qr = ~sync.authed], "err", "connect")
            \/ /\ sync.authed
               /\ sync' = [sync EXCEPT !.pc = "running", !.connected = TRUE]
            \/ /\ ~sync.authed
               /\ sync' = [sync EXCEPT !.pc = "qr", !.qr = TRUE, !.connected = TRUE]
    /\ UNCHANGED <<storeVars, send>>

\* the QR flow ends: paired, or timeout, error, closed channel, cancellation
PairQR ==
    /\ sync.pc = "qr"
    /\ \/ sync' = [sync EXCEPT !.pc = "running", !.authed = TRUE]
       \/ sync' = PairReturn(sync, "err", "qr")
    /\ UNCHANGED <<storeVars, send>>

\* events.Message reaches Sync's handler: the message is stored
PairMessage ==
    /\ sync.pc = "running" /\ sync.connected /\ "sync" \in sync.handlers
    /\ sync.events < MaxPairEvents
    /\ \E id \in MsgIDs, t \in Times \ {ZeroTime} :
         LET res == storeParsedMessage(TheStore,
                        ParsedMessage(DisplayChat, id, t,
                            [Text |-> "hello", Media |-> NoMedia]
                              @@ NoReplyNoReaction @@ DisplaySender), "", "")
         IN  /\ chats' = res.chats
             /\ messages' = res.messages
             /\ nextRowid' = res.nextRowid
    /\ sync' = [sync EXCEPT !.events = @ + 1]
    /\ UNCHANGED <<call, supplied, ops, db, send>>

\* Sync leaves its loop (cancellation, idle exit) and returns
PairStop ==
    /\ sync.pc = "running"
    /\ sync' = PairReturn(sync, "ok", "stopped")
    /\ UNCHANGED <<storeVars, send>>

NextPairing ==
    PairEnter \/ PairSyncRegister \/ PairConnect \/ PairQR \/ PairMessage \/ PairStop

SpecPairing == InitPairing /\ [][NextPairing]_vars

\* C17: the sync command and the backfill call Sync with pairing disabled
\* and never start the QR flow; when the session is not authenticated
\* nothing is ever stored, and the call returns the "not authenticated"
\* error with no event handler left registered.
C17_NoPairingInSync ==
    (sync.pc # "none" /\ sync.caller \in {"sync", "backfill"}) =>
        /\ ~sync.allowQR /\ ~sync.qr
        /\ ~sync.authed0 =>
              /\ messages = {} /\ ~sync.connected
              /\ sync.pc = "returned" =>
                    /\ sync.result = "err"
                    /\ sync.reason \in {"not authenticated", "open"}
                    /\ sync.handlers = {}

\* the sync command on a session that is not authenticated: Connect has
\* refused and Sync has returned
C17_Witness ==
    /\ sync.pc = "returned" /\ sync.caller = "sync" /\ ~sync.authed0
    /\ sync.reason = "not authenticated" /\ sync.handlers = {} /\ messages = {}

----------------------------------------------------------------------------
(* SpecMigrate: ensureSchema, step by step, over several openings of one
   store file.  db.ledger is the schema_migrations table (its versions in
   the order of insertion), db.schema the set of versions whose up has
   run on the file, db.log the steps of the current opening. *)

MaxOpens == 3

\* the versions of schemaMigrations, in the order of the slice
schemaMigrations == <<1, 2, 3, 4>>

Versions == { schemaMigrations[i] : i \in DOMAIN schemaMigrations }

\* a loop that skips nothing
NeverApplied(applied, version) == FALSE

\* applied[m.version] of the map loaded from the ledger
IsApplied(applied, version) == version \in applied

InitMigrate ==
    /\ chats = [j \in ChatJIDs |-> NoRow]
    /\ messages = {}
    /\ nextRowid = 1
    /\ call = NoCall
    /\ supplied = [j \in ChatJIDs |-> {}]
    /\ ops = 0
    /\ db = [pc |-> "closed", ledger |-> <<>>, schema |-> {}, partial |-> {},
             applied |-> {}, idx |-> 0, log |-> <<>>, opens |-> 0]
    /\ sync = NoSync /\ send = NoSend

LedgerVersions(d) == { d.ledger[i] : i \in DOMAIN d.ledger }

\* Open of the file, closed or left by an earlier opening: the ledger table
\* is created if missing and read into the applied map, or one of the two
\* statements fails
EnsureSchemaStart ==
    /\ db.pc \in {"closed", "open", "failed"}
    /\ db.opens < MaxOpens
    /\ \/ db' = [db EXCEPT !.pc = "loop", !.applied = LedgerVersions(db),
                           !.idx = 1, !.log = <<>>, !.opens = @ + 1]
       \/ db' = [db EXCEPT !.pc = "failed", !.applied = {}, !.idx = 0,
                           !.log = <<>>, !.opens = @ + 1]
    /\ UNCHANGED <<chats, messages, nextRowid, call, supplied, ops, sync, send>>

\* the steps whose up makes several changes one after the other, outside
\* any transaction: the core schema and the two reaction columns
MultiStatement == {1, 4}

\* the step that returns nil when its table, triggers or backfill fail
BestEffort == {3}

\* one turn of the loop up to m.up: the migration is skipped, or its up
\* runs and returns nil with its changes made, returns nil without them
\* (the full-text step goes on without the index), or returns an error
\* with none or some of its changes made
MigrateUp ==
    /\ db.pc = "loop" /\ db.idx <= Len(schemaMigrations)
    /\ LET v == schemaMigrations[db.idx]
       IN  IF IsApplied(db.applied, v)
           THEN db' = [db EXCEPT !.idx = @ + 1]
           ELSE \/ db' = [db EXCEPT !.pc = "record", !.schema = @ \cup {v},
                                    !.partial = @ \ {v},
                                    !.log = Append(@, <<"up", v>>)]
                \/ /\ v \in BestEffort /\ v \notin db.schema
                   /\ \E some \in BOOLEAN :
                        db' = [db EXCEPT !.pc = "record",
                                         !.partial = IF some THEN @ \cup {v} ELSE @,
                                         !.log = Append(@, <<"up", v>>)]
                \/ db' = [db EXCEPT !.pc = "failed"]
                \/ /\ v \in MultiStatement /\ v \notin db.schema
                   /\ db' = [db EXCEPT !.pc = "failed", !.partial = @ \cup {v}]
    /\ UNCHANGED <<chats, messages, nextRowid, call, supplied, ops, sync, send>>

\* the INSERT into schema_migrations: it fails on a version already there
\* (PRIMARY KEY), or because the database refuses it
MigrateRecord ==
    /\ db.pc = "record"
    /\ LET v == schemaMigrations[db.idx]
       IN  \/ /\ v \notin LedgerVersions(db)
              /\ db' = [db EXCEPT !.pc = "loop", !.idx = @ + 1,
                                  !.ledger = Append(@, v),
                                  !.log = Append(@, <<"record", v>>)]
           \/ db' = [db EXCEPT !.pc = "failed"]
    /\ UNCHANGED <<chats, messages, nextRowid, call, supplied, ops, sync, send>>

\* the loop is over: ensureSchema returns nil
EnsureSchemaDone ==
    /\ db.pc = "loop" /\ db.idx > Len(schemaMigrations)
    /\ db' = [db EXCEPT !.pc = "open"]
    /\ UNCHANGED <<chats, messages, nextRowid, call, supplied, ops, sync, send>>

\* the process ends in the middle of ensureSchema
MigrateCrash ==
    /\ db.pc \in {"loop", "record"}
    /\ db' = [db EXCEPT !.pc = "closed"]
    /\ UNCHANGED <<chats, messages, nextRowid, call, supplied, ops, sync, send>>

NextMigrate ==
    EnsureSchemaStart \/ MigrateUp \/ MigrateRecord \/ EnsureSchemaDone
        \/ MigrateCrash

SpecMigrate == InitMigrate /\ [][NextMigrate]_vars

\* the versions the steps of the current opening name, in their order
C18LogVersions == [i \in DOMAIN db.log |-> db.log[i][2]]

\* the versions not in the ledger when the current opening began
C18Pending == Versions \ db.applied

\* C18: an opening applies migrations that were not in the ledger, in
\* ascending order of version and without leaving one out, and records
\* each right after its up succeeded; after a failed step nothing more is
\* applied or recorded; an opening that returns nil leaves every version
\* recorded; opening a fully migrated store applies nothing; no version
\* is in the ledger twice.
C18_MigrationsInOrder ==
    /\ [](db.pc # "none" =>
            /\ \A i \in DOMAIN db.log :
                  /\ db.log[i][2] \in C18Pending
                  /\ db.log[i][1] = IF i % 2 = 1 THEN "up" ELSE "record"
                  /\ i % 2 = 0 => db.log[i][2] = db.log[i - 1][2]
                  /\ i > 2 => db.log[i][2] >= db.log[i - 2][2]
                  /\ (i % 2 = 1 /\ i > 2) => db.log[i][2] > db.log[i - 2][2]
                  /\ \A v \in C18Pending :
                        v < db.log[i][2] => v \in LedgerVersions(db)
            /\ \A i, j \in DOMAIN db.ledger : i # j => db.ledger[i] # db.ledger[j]
            /\ C18Pending = {} => db.log = <<>>
            /\ db.pc = "open" => LedgerVersions(db) = Versions)
    /\ [][db.pc = "failed" =>
            (db'.ledger = db.ledger /\ db'.schema = db.schema
             /\ (db'.log = db.log \/ db'.log = <<>>))]_vars

\* an opening that failed after applying and recording, then a second one
\* that applied exactly the rest
C18_Witness ==
    /\ db.pc = "open" /\ db.opens = 2
    /\ db.applied = {1, 2}
    /\ C18LogVersions = <<3, 3, 4, 4>>

\* a fully migrated store opened again: nothing is applied
C18Reopened ==
    /\ db.pc = "open" /\ db.opens >= 2
    /\ db.applied = Versions /\ db.log = <<>>

----------------------------------------------------------------------------
(* SpecBackfill: BackfillHistory's request loop inside its Sync call, for
   an authenticated, connected session.  sync.waitCh is the channel of the
   current round (NoChan for nil), sync.pending the batch the session has
   delivered to BackfillHistory's handler and not yet to Sync's, which is
   registered after it and stores the batch. *)

MaxBackfillRequests == 2
MaxEvents == 2

\* capacity of the channel a round makes
ChanCap == 4

\* a nil channel, and a channel made by a round with nothing in it
NoChan == [nil |-> TRUE, buf |-> <<>>]
NewChan == [nil |-> FALSE, buf |-> <<>>]

\* no batch is on its way to Sync's handler
NoBatch == <<>>

BackfillChat == "c1@s.whatsapp.net"

\* message ids by age: the message with timestamp t
HistIDs == <<"m1", "m2", "m3", "m4">>

HistEntryAt(t) == [nilMessage |-> FALSE, ID |-> HistIDs[t], t |-> t, body |-> 1]

\* what an on-demand batch for the chat carries: nothing, an entry without
\* message, or one message of some age
BackfillBatches ==
    { <<>>, << [nilMessage |-> TRUE, ID |-> "m1", t |-> 1, body |-> 1] >> }
    \cup { << HistEntryAt(t) >> : t \in 1..MaxTs }

EndTypes == {"more", "complete"}

\* sync types of a HistorySync: on demand, and one of the others
SyncTypes == {"ON_DEMAND", "RECENT"}

OtherChat == "g1@g.us"

\* the conversations of an event that carries the batch: the chat's, another
\* chat's, or another chat's without messages followed by the chat's
EventConversations(batch) ==
    { << [ID |-> BackfillChat, messages |-> batch] >>,
      << [ID |-> OtherChat, messages |-> batch] >>,
      << [ID |-> OtherChat, messages |-> <<>>],
         [ID |-> BackfillChat, messages |-> batch] >> }

\* a handler that looks at the conversations of a batch of any sync type
MatchAnyType(syncType, convs, chatStr) ==
    LET hits == { i \in DOMAIN convs : TrimSpace(convs[i].ID) = chatStr }
    IN  IF hits = {} THEN 0
        ELSE CHOOSE i \in hits : \A k \in hits : i <= k

\* the handler's test: the index of the first conversation of an on-demand
\* batch whose trimmed ID is the chat, 0 when the handler returns without one
Match(syncType, convs, chatStr) ==
    LET hits == { i \in DOMAIN convs : TrimSpace(convs[i].ID) = chatStr }
    IN  IF syncType # "ON_DEMAND" \/ hits = {} THEN 0
        ELSE CHOOSE i \in hits : \A k \in hits : i <= k

\* the query with ORDER BY m.ts DESC
GetNewestMessageInfo(msgs, chatJID) ==
    LET rows == { m \in msgs : m.chat_jid = chatJID }
    IN  IF rows = {} THEN {""}
        ELSE { m.msg_id : m \in { r \in rows : \A o \in rows : r.ts >= o.ts } }

\* GetOldestMessageInfo: the MsgID of a row of the chat with the least ts,
\* "" standing for sql.ErrNoRows
GetOldestMessageInfo(msgs, chatJID) ==
    LET rows == { m \in msgs : m.chat_jid = chatJID }
    IN  IF rows = {} THEN {""}
        ELSE { m.msg_id : m \in { r \in rows : \A o \in rows : r.ts <= o.ts } }

\* a budget of one request more than asked for
RequestsPlusOne(requests) == requests + 1

\* the Requests option after its default
EffectiveRequests(requests) == IF requests <= 0 THEN 1 ELSE requests

\* no request made yet
NoReqInfo == [ID |-> "", Timestamp |-> ZeroTime, IsFromMe |-> FALSE]

\* reqInfo: the anchor of a request, from the row GetOldestMessageInfo scanned
ReqInfoOf(msgs, chatJID, msgID) ==
    LET m == CHOOSE r \in msgs : r.chat_jid = chatJID /\ r.msg_id = msgID
    IN  [ID |-> m.msg_id, Timestamp |-> fromUnix(m.ts), IsFromMe |-> m.from_me # 0]

BackfillStart(requests) ==
    [pc |-> "loop", requests |-> EffectiveRequests(requests), opt |-> requests,
     i |-> 0, requestsSent |-> 0, responsesSeen |-> 0,
     roundSent |-> 0, roundSeen |-> 0,
     oldest |-> "", reqInfo |-> NoReqInfo, waitCh |-> NoChan,
     resp |-> [messages |-> 0, endType |-> "more", batch |-> <<>>],
     pending |-> NoBatch, events |-> 0, cancelled |-> FALSE,
     result |-> "none", reason |-> "",
     out |-> [RequestsSent |-> 0, ResponsesSeen |-> 0]]

EmptyStore ==
    [chats |-> [j \in ChatJIDs |-> NoRow], messages |-> {}, nextRowid |-> 1]

\* the store an earlier sync left: nothing of the chat, its newest
\* message, or its newest and its first message
SyncedStores ==
    { EmptyStore }
    \cup { storeHistory(EmptyStore, [j \in ChatJIDs |-> {}], BackfillChat,
                        entries, <<"", "">>).st :
             entries \in { << HistEntryAt(MaxTs) >>,
                           << HistEntryAt(MaxTs), HistEntryAt(1) >> } }

InitBackfill ==
    /\ \E st \in SyncedStores :
          /\ chats = st.chats
          /\ messages = st.messages
          /\ nextRowid = st.nextRowid
    /\ call = NoCall /\ supplied = [j \in ChatJIDs |-> {}] /\ ops = 0 /\ db = NoDB
    /\ send = NoSend
    /\ sync \in { BackfillStart(r) : r \in 0..MaxBackfillRequests }

\* BackfillHistory returns: the counters after a Sync without error, the
\* zero BackfillResult after an error
BackfillReturn(s, res, why) ==
    [s EXCEPT !.pc = "returned", !.result = res, !.reason = why,
              !.out = IF res = "ok"
                      THEN [RequestsSent |-> s.requestsSent,
                            ResponsesSeen |-> s.responsesSeen]
                      ELSE [RequestsSent |-> 0, ResponsesSeen |-> 0]]

\* the head of the loop up to the wait: the budget is used up and the
\* callback returns nil; or the anchor is read (no row: an error), the
\* round's channel made, the request counted and sent (or refused)
BackfillRound ==
    /\ sync.pc = "loop"
    /\ IF sync.i >= sync.requests
       THEN sync' = [sync EXCEPT !.pc = "syncLoop", !.reason = "budget"]
       ELSE \E oldest \in GetOldestMessageInfo(messages, BackfillChat) :
              IF oldest = ""
              THEN sync' = BackfillReturn(sync, "err", "no messages")
              ELSE LET s == [sync EXCEPT !.oldest = oldest, !.waitCh = NewChan,
                                         !.reqInfo = ReqInfoOf(messages, BackfillChat, oldest),
                                         !.roundSent = sync.requestsSent,
                                         !.roundSeen = sync.responsesSeen,
                                         !.requestsSent = @ + 1]
                   IN  \/ sync' = [s EXCEPT !.pc = "wait"]
                       \/ sync' = BackfillReturn(s, "err", "request")
    /\ UNCHANGED <<storeVars, send>>

\* the select of the round
BackfillSelect ==
    /\ sync.pc = "wait"
    /\ \/ /\ sync.cancelled
          /\ sync' = BackfillReturn(sync, "err", "cancelled")
       \/ /\ sync.waitCh.buf # <<>>
          /\ sync' = [sync EXCEPT !.pc = "check", !.resp = Head(sync.waitCh.buf),
                                  !.waitCh = NoChan, !.responsesSeen = @ + 1]
       \/ sync' = BackfillReturn(sync, "err", "timeout")
    /\ UNCHANGED <<storeVars, send>>

\* after a response: the callback returns nil for one of three reasons,
\* or the loop goes on
BackfillCheck ==
    /\ sync.pc = "check"
    /\ \E newOldest \in GetOldestMessageInfo(messages, BackfillChat) :
         IF newOldest = sync.oldest
         THEN sync' = [sync EXCEPT !.pc = "syncLoop", !.reason = "no progress"]
         ELSE IF sync.resp.messages <= 0
         THEN sync' = [sync EXCEPT !.pc = "syncLoop", !.reason = "zero"]
         ELSE IF sync.resp.endType = "complete"
         THEN sync' = [sync EXCEPT !.pc = "syncLoop", !.reason = "complete"]
         ELSE sync' = [sync EXCEPT !.pc = "loop", !.i = @ + 1]
    /\ UNCHANGED <<storeVars, send>>

\* Sync's loop after the callback: it returns nil, or an error
BackfillSyncEnds ==
    /\ sync.pc = "syncLoop"
    /\ \/ sync' = BackfillReturn(sync, "ok", sync.reason)
       \/ sync' = BackfillReturn(sync, "err", "sync")
    /\ UNCHANGED <<storeVars, send>>

\* a HistorySync event reaches BackfillHistory's handler, the first one
\* registered: a response is put on the round's channel when the batch
\* matches, unless there is no channel or it is full; the handler returns
\* and Sync's handler gets the event next.  On-demand batches for the chat
\* follow a request.  The batch field of a response is not in the
\* program's onDemandResponse: it remembers the messages counted.
HistoryEvent ==
    /\ sync.pc \in {"wait", "check", "loop", "syncLoop"}
    /\ sync.events < MaxEvents
    /\ sync.pending = NoBatch
    /\ \E syncType \in SyncTypes, batch \in BackfillBatches, endType \in EndTypes :
         \E convs \in EventConversations(batch) :
           LET k == Match(syncType, convs, BackfillChat)
           IN  /\ (syncType = "ON_DEMAND" /\ k # 0) => sync.requestsSent > 0
               /\ sync' = [sync EXCEPT
                    !.events = @ + 1,
                    !.pending = << [syncType |-> syncType, convs |-> convs,
                                    endType |-> endType] >>,
                    !.waitCh.buf =
                        IF k = 0 \/ sync.waitCh.nil \/ Len(@) >= ChanCap THEN @
                        ELSE Append(@, [messages |-> Len(convs[k].messages),
                                        endType |-> endType,
                                        batch |-> convs[k].messages])]
    /\ UNCHANGED <<storeVars, send>>

\* Sync's handler stores the next conversation of the batch, each message
\* in a statement of its own; after the last one the handler returns
HistoryStored ==
    /\ sync.pc # "none" /\ sync.pending # NoBatch
    /\ LET conv == Head(sync.pending[1].convs)
           res == storeHistory(TheStore, supplied, TrimSpace(conv.ID),
                               conv.messages, <<"", "">>)
       IN  /\ chats' = res.st.chats
           /\ messages' = res.st.messages
           /\ nextRowid' = res.st.nextRowid
           /\ supplied' = res.sup
    /\ sync' = [sync EXCEPT
                  !.pending = IF Len(@[1].convs) = 1 THEN NoBatch
                              ELSE << [@[1] EXCEPT !.convs = Tail(@)] >>]
    /\ UNCHANGED <<call, ops, db, send>>

BackfillCancel ==
    /\ sync.pc \notin {"none", "returned"} /\ ~sync.cancelled
    /\ sync' = [sync EXCEPT !.cancelled = TRUE]
    /\ UNCHANGED <<storeVars, send>>

BackfillStep == BackfillRound \/ BackfillSelect \/ BackfillCheck

NextBackfill ==
    BackfillStep \/ BackfillSyncEnds \/ HistoryEvent \/ HistoryStored
        \/ BackfillCancel

SpecBackfill == InitBackfill /\ [][NextBackfill]_vars

\* the callback's own steps are taken: each of its waits ends, by a
\* response, by the timer or by cancellation
SpecBackfillFair == SpecBackfill /\ WF_vars(BackfillStep)

\* the request loop is over
C19LoopOver == sync.pc \in {"syncLoop", "returned"}

\* one of the three reasons to stop holds after the response
C19Stop ==
    \/ sync.oldest \in GetOldestMessageInfo(messages, BackfillChat)
    \/ sync.resp.messages = 0
    \/ sync.resp.endType = "complete"

C19Budget == IF sync.opt >= 1 THEN sync.opt ELSE 1

\* C19: at most max(1, Requests) requests are sent and the request loop
\* ends.  After a response the loop stops when the oldest message of the
\* chat is unchanged, the response carried no message or it says that
\* nothing remains upstream; otherwise it goes on, and the next round
\* sends a request as long as the budget is not used up; once the loop is
\* over no request is sent.
C19_BackfillBounded ==
    /\ [](sync.pc # "none" => sync.requestsSent <= C19Budget)
    /\ <>(sync.pc # "none" /\ C19LoopOver)
    /\ [][(sync.pc = "check" /\ sync'.pc # "check") =>
            IF C19Stop THEN sync'.pc = "syncLoop"
            ELSE sync'.pc = "loop" /\ sync'.i = sync.i + 1]_vars
    /\ [][(sync.pc = "loop" /\ sync'.pc # "loop") =>
            IF sync.requestsSent < C19Budget
            THEN \/ sync'.requestsSent = sync.requestsSent + 1
                 \/ sync'.reason = "no messages"
            ELSE sync'.pc = "syncLoop" /\ sync'.requestsSent = sync.requestsSent]_vars
    /\ [][(sync.pc # "none" /\ C19LoopOver) =>
            sync'.requestsSent = sync.requestsSent]_vars

\* a budget of two requests used up after a first response that brought
\* an older message
C19_Witness ==
    /\ sync.pc = "returned" /\ sync.opt = 2
    /\ sync.requestsSent = 2 /\ sync.responsesSeen >= 1

\* the loop stopped by a response that changed nothing, with budget left
C19NoProgress ==
    /\ sync.pc = "returned" /\ sync.result = "ok" /\ sync.reason = "no progress"
    /\ sync.requestsSent = 1 /\ sync.opt = 2

\* C20: a round that times out aborts with an error and has incremented
\* neither counter; on every return the response counter is at most the
\* request counter, and after a run without error the two are equal.
C20_TimeoutCountsNothing ==
    sync.pc = "returned" =>
        /\ sync.reason = "timeout" =>
              /\ sync.result = "err"
              /\ sync.requestsSent = sync.roundSent
              /\ sync.responsesSeen = sync.roundSeen
        /\ sync.responsesSeen <= sync.requestsSent
        /\ sync.result = "ok" => sync.responsesSeen = sync.requestsSent

\* C20 without "a timed-out round does not count its request"
C20Rest ==
    sync.pc = "returned" =>
        /\ sync.reason = "timeout" =>
              /\ sync.result = "err"
              /\ sync.requestsSent = sync.roundSent + 1
              /\ sync.responsesSeen = sync.roundSeen
              /\ sync.out = [RequestsSent |-> 0, ResponsesSeen |-> 0]
        /\ sync.responsesSeen <= sync.requestsSent
        /\ sync.out.ResponsesSeen <= sync.out.RequestsSent
        /\ sync.result = "ok" =>
              /\ sync.responsesSeen = sync.requestsSent
              /\ sync.out.ResponsesSeen = sync.out.RequestsSent

\* the rows of the chat with the least stored ts
C21OldestRows ==
    { m \in messages : /\ m.chat_jid = BackfillChat
                       /\ \A o \in messages :
                            o.chat_jid = BackfillChat => m.ts <= o.ts }

\* the anchor of the request just sent names one of the oldest rows
C21Anchored(info) ==
    \E m \in C21OldestRows :
        /\ info.ID = m.msg_id
        /\ info.Timestamp = (IF m.ts <= 0 THEN ZeroTime ELSE m.ts)
        /\ info.IsFromMe = (m.from_me = 1)

\* C21: every request BackfillHistory sends is anchored at a message of
\* the chat with the smallest stored timestamp at the time the round
\* reads the store (its id, timestamp and from-me flag), read anew in
\* every round; with no stored message of the chat no request is sent
\* and an error is returned.
C21_AnchoredAtOldest ==
    /\ [][(sync.pc = "loop" /\ sync'.requestsSent = sync.requestsSent + 1) =>
            C21Anchored(sync'.reqInfo)]_vars
    /\ [][(sync.pc = "loop" /\ sync.i < sync.requests /\ sync'.pc # "loop"
              /\ C21OldestRows = {}) =>
            /\ sync'.requestsSent = sync.requestsSent
            /\ sync'.pc = "returned" /\ sync'.result = "err"
            /\ sync'.reason = "no messages"]_vars
    /\ [][sync'.reqInfo # sync.reqInfo =>
            sync'.requestsSent = sync.requestsSent + 1]_vars

\* a second request, anchored at an older message than the one the store
\* began with
C21_Witness ==
    /\ sync.pc = "wait" /\ sync.requestsSent = 2
    /\ sync.reqInfo.ID = "m1" /\ sync.reqInfo.Timestamp = 1
    /\ \E m \in messages : m.chat_jid = BackfillChat /\ m.ts > 1

\* no message of the chat: an error and no request
C21NoMessages ==
    /\ sync.pc = "returned" /\ sync.reason = "no messages"
    /\ sync.requestsSent = 0 /\ sync.result = "err"

-----------------------------------------------------------------------------
(* SpecContacts: the contacts table under UpsertContact.  db.contacts maps
   a jid to its row; supplied remembers, per jid and column, the last
   non-empty value a call carried ("" when there was none). *)

MaxContactCalls == 2

ContactJIDs == {"111@s.whatsapp.net", "222@s.whatsapp.net"}

ContactFields == {"phone", "push_name", "full_name", "first_name", "business_name"}

ContactValues == {"A", "B"}

\* what a call carries: a value in some of the fields, "" in the others
ContactInputs ==
    { [f \in ContactFields |-> IF f \in on THEN v ELSE ""] :
        on \in SUBSET ContactFields, v \in ContactValues }

\* every column set to excluded.x
UpsertContactOverwrite(table, jid, in, now) ==
    [table EXCEPT ![jid] = [f \in ContactFields |-> in[f]] @@ [updated_at |-> now]]

\* INSERT INTO contacts ... ON CONFLICT(jid) DO UPDATE SET
\*   x=COALESCE(NULLIF(excluded.x,''), contacts.x), updated_at=excluded.updated_at
UpsertContact(table, jid, in, now) ==
    [table EXCEPT ![jid] =
        IF table[jid] = NoRow
        THEN [f \in ContactFields |-> in[f]] @@ [updated_at |-> now]
        ELSE [f \in ContactFields |-> CoalesceNullif(table[jid][f], in[f])]
                 @@ [updated_at |-> now]]

InitContacts ==
    /\ chats = [j \in ChatJIDs |-> NoRow]
    /\ messages = {}
    /\ nextRowid = 1
    /\ call = NoCall
    /\ supplied = [j \in ContactJIDs |-> [f \in ContactFields |-> ""]]
    /\ ops = 0
    /\ db = [pc |-> "open", contacts |-> [j \in ContactJIDs |-> NoRow]]
    /\ sync = NoSync /\ send = NoSend

\* one UpsertContact call, at the time ops + 1
UpsertContactCall ==
    /\ db.pc = "open" /\ ops < MaxContactCalls
    /\ \E jid \in ContactJIDs, in \in ContactInputs :
          /\ db' = [db EXCEPT !.contacts = UpsertContact(@, jid, in, ops + 1)]
          /\ call' = [op |-> "contact", jid |-> jid, in |-> in,
                      before |-> db.contacts[jid]]
          /\ supplied' = [supplied EXCEPT ![jid] =
                            [f \in ContactFields |->
                               IF in[f] # "" THEN in[f] ELSE @[f]]]
    /\ ops' = ops + 1
    /\ UNCHANGED <<chats, messages, nextRowid, sync, send>>

NextContacts == UpsertContactCall

SpecContacts == InitContacts /\ [][NextContacts]_vars

\* C22: after any sequence of UpsertContact calls, each of phone, push
\* name, full name, first name and business name of a contact holds the
\* last non-empty value a call carried for it ("" when no call carried
\* one); a call with an empty value for a field leaves the stored value,
\* so a field that is known never becomes empty again.
C22_KeepNewestNonEmpty ==
    /\ [](\A j \in ContactJIDs :
            db.contacts[j] # NoRow =>
                \A f \in ContactFields : db.contacts[j][f] = supplied[j][f])
    /\ [][\A j \in ContactJIDs, f \in ContactFields :
            (db.contacts[j] # NoRow /\ db.contacts[j][f] # "") =>
                /\ db'.contacts[j] # NoRow
                /\ db'.contacts[j][f] # ""
                /\ (call'.jid # j \/ call'.in[f] = "") =>
                      db'.contacts[j][f] = db.contacts[j][f]]_vars

\* a contact known by all its names is upserted with a new push name only
C22_Witness ==
    /\ call.op = "contact" /\ call.before # NoRow
    /\ \A f \in ContactFields : call.before[f] = "A"
    /\ call.in = [f \in ContactFields |-> IF f = "push_name" THEN "B" ELSE ""]
    /\ db.contacts[call.jid].push_name = "B"
    /\ db.contacts[call.jid].full_name = "A"

-----------------------------------------------------------------------------
(* SpecConn: handleSendConn on one accepted connection, whatever the peer
   writes.  send.line is what the peer puts on the connection, send.written
   the response lines that went out on it, send.uploads and send.sends the
   calls made on the session. *)

\* the zero SendRequest
ZeroRequest == [To |-> "", Message |-> "", Type |-> "", FilePath |-> "", Caption |-> ""]

\* the objects a peer may send
RequestObjects ==
    { [To |-> to, Message |-> msg, Type |-> type, FilePath |-> path, Caption |-> ""] :
        to \in {"", "?", "c1@s.whatsapp.net", "g1@g.us"}, msg \in {"", "hello"},
        type \in {"", "FILE"}, path \in {"", "a.jpg", "missing"} }

\* what the peer does: it closes without a line, it stays silent, it sends
\* an empty line, a line that is no JSON, or an object
ConnLines ==
    { [raw |-> r, obj |-> ZeroRequest] : r \in {"eof", "silent", "empty", "garbage"} }
    \cup { [raw |-> "json", obj |-> o] : o \in RequestObjects }

\* json.Unmarshal(scanner.Bytes(), &req)
Unmarshal(line) ==
    IF line.raw = "json" THEN [err |-> FALSE, req |-> line.obj]
    ELSE [err |-> TRUE, req |-> ZeroRequest]

\* os.ReadFile(req.FilePath)
ReadFileFails(path) == path = "missing"

ConnStart(line) ==
    [pc |-> "accepted", line |-> line, req |-> ZeroRequest,
     deadline |-> "open", written |-> 0, response |-> "none", error |-> "",
     uploads |-> 0, sends |-> 0]

InitConn == StoreInit /\ sync = NoSync /\ send \in { ConnStart(l) : l \in ConnLines }

\* writeSendResponse followed by the return and the deferred conn.Close:
\* the line goes out unless the deadline of the connection has passed
writeSendResponse(s, success, error) ==
    IF s.deadline = "passed"
    THEN [s EXCEPT !.pc = "closed"]
    ELSE [s EXCEPT !.pc = "closed", !.written = @ + 1,
                   !.response = IF success THEN "success" ELSE "error",
                   !.error = error]

\* handleSendConn from the scan to the switch, and handleSendFileSock up
\* to the upload
handleSendConn(s) ==
    IF s.line.raw \in {"eof", "silent"}
    THEN writeSendResponse(s, FALSE, "no input")
    ELSE LET u == Unmarshal(s.line)
             req == u.req
         IN  IF u.err THEN writeSendResponse(s, FALSE, "invalid json")
             ELSE IF req.To = "" THEN writeSendResponse(s, FALSE, "to is required")
             ELSE IF ~ParsesAsJID(req.To)
                  THEN writeSendResponse(s, FALSE, "invalid recipient")
             ELSE IF ToLower(req.Type) = "file"
                  THEN IF req.FilePath = ""
                       THEN writeSendResponse(s, FALSE, "file_path is required for file sends")
                       ELSE IF ReadFileFails(req.FilePath)
                       THEN writeSendResponse(s, FALSE, "read file")
                       ELSE [s EXCEPT !.pc = "uploading", !.req = req,
                                      !.uploads = @ + 1]
             ELSE IF req.Message = ""
                  THEN writeSendResponse(s, FALSE, "to and message are required")
                  ELSE [s EXCEPT !.pc = "sending", !.req = req, !.sends = @ + 1]

\* the scan returns: with the line, at the end of the input, or when the
\* deadline of 30 seconds passes on a silent peer
ConnScan ==
    /\ send.pc = "accepted"
    /\ send' = handleSendConn(IF send.line.raw = "silent"
                              THEN [send EXCEPT !.deadline = "passed"]
                              ELSE send)
    /\ UNCHANGED <<storeVars, sync>>

\* the deadline of the connection passes while the handler is in a call
\* on the session
ConnDeadline ==
    /\ send.pc \in {"uploading", "sending"} /\ send.deadline = "open"
    /\ send' = [send EXCEPT !.deadline = "passed"]
    /\ UNCHANGED <<storeVars, sync>>

ConnUploadFailed ==
    /\ send.pc = "uploading"
    /\ send' = writeSendResponse(send, FALSE, "upload failed")
    /\ UNCHANGED <<storeVars, sync>>

ConnUploadOK ==
    /\ send.pc = "uploading"
    /\ send' = [send EXCEPT !.pc = "sending", !.sends = @ + 1]
    /\ UNCHANGED <<storeVars, sync>>

ConnSendFailed ==
    /\ send.pc = "sending"
    /\ send' = writeSendResponse(send, FALSE, "send failed")
    /\ UNCHANGED <<storeVars, sync>>

\* the send call returns an id: the echo is stored, then the reply written
ConnSendOK ==
    /\ send.pc = "sending"
    /\ LET st == IF ToLower(send.req.Type) = "file"
                 THEN EchoFile(TheStore, send.req.To, "m1", 1, send.req.Caption, "")
                 ELSE EchoText(TheStore, send.req.To, "m1", 1, send.req.Message, "")
       IN  /\ chats' = st.chats
           /\ messages' = st.messages
           /\ nextRowid' = st.nextRowid
    /\ send' = writeSendResponse(send, TRUE, "")
    /\ UNCHANGED <<call, supplied, ops, db, sync>>

NextConn ==
    \/ ConnScan \/ ConnDeadline
    \/ ConnUploadFailed \/ ConnUploadOK \/ ConnSendFailed \/ ConnSendOK

SpecConn == InitConn /\ [][NextConn]_vars

\* the request is one of those the claim lists
C23Invalid(line) ==
    \/ line.raw # "json"
    \/ line.obj.To = ""
    \/ line.obj.To \notin ChatJIDs
    \/ line.obj.Type # "FILE" /\ line.obj.Message = ""
    \/ line.obj.Type = "FILE" /\ line.obj.FilePath = ""

C23NoSideEffect ==
    /\ send.uploads = 0 /\ send.sends = 0
    /\ messages = {} /\ \A j \in ChatJIDs : chats[j] = NoRow

\* C23: once the handler of an accepted connection is done, exactly one
\* response line has been written on it; and for a request that is empty,
\* no JSON, without `to`, with an unparsable recipient, without `message`
\* (text) or without `file_path` (file) that line is an error reply, with
\* no upload, send or store write made.
C23_OneResponseLine ==
    /\ send.written <= 1
    /\ send.pc = "closed" => send.written = 1
    /\ (send.pc = "closed" /\ C23Invalid(send.line)) =>
          /\ send.response = "error" /\ send.error # ""
          /\ C23NoSideEffect

\* C23 with the line counted only while the deadline of the connection
\* has not passed
C23Rest ==
    /\ send.written <= 1
    /\ (send.pc = "closed" /\ send.deadline = "open") => send.written = 1
    /\ (send.pc = "closed" /\ send.deadline = "passed") => send.written = 0
    /\ C23Invalid(send.line) =>
          /\ C23NoSideEffect
          /\ send.written = 1 => (send.response = "error" /\ send.error # "")
    /\ send.response = "success" => send.sends = 1 /\ messages # {}

\* the handler is done with a silent peer and no line went out
C23Silent ==
    send.pc = "closed" /\ send.line.raw = "silent" /\ send.written = 0

\* a text was sent and stored after the deadline, and no line went out
C23LateSend ==
    /\ send.pc = "closed" /\ send.sends = 1 /\ messages # {}
    /\ send.written = 0

-----------------------------------------------------------------------------
(* Claims on the conflict update of UpsertMessage, in SpecUpsert *)

C24Bytes == {"media_key", "file_sha256", "file_enc_sha256"}

\* the incoming value of a BLOB column, and whether it is non-empty
C24Incoming(p, c) ==
    CASE c = "media_key" -> p.MediaKey
      [] c = "file_sha256" -> p.FileSHA256
      [] c = "file_enc_sha256" -> p.FileEncSHA256

C24NonEmpty(v) == v # NULL /\ v # ""

\* C24: when UpsertMessage hits an existing (chat_jid, msg_id), media_key,
\* file_sha256 and file_enc_sha256 take the incoming value when it is
\* non-empty and keep the stored one otherwise, file_length takes the
\* incoming value when it is greater than zero and keeps the stored one
\* otherwise, and ts and from_me are replaced by the incoming values.
C24_ConflictMerge ==
    [][ (call'.op = "UpsertMessage" /\ ~call'.err /\ ops' = ops + 1) =>
          \A r \in RowsOf(messages, call'.p.ChatJID, call'.p.MsgID) :
            \E r2 \in messages' :
              /\ RowsOf(messages', call'.p.ChatJID, call'.p.MsgID) = {r2}
              /\ r2.rowid = r.rowid
              /\ \A c \in C24Bytes :
                    r2[c] = IF C24NonEmpty(C24Incoming(call'.p, c))
                            THEN C24Incoming(call'.p, c) ELSE r[c]
              /\ r2.file_length = IF call'.p.FileLength > 0
                                  THEN call'.p.FileLength ELSE r.file_length
              /\ r2.ts = (IF call'.p.Timestamp = ZeroTime THEN 0
                          ELSE call'.p.Timestamp)
              /\ r2.from_me = (IF call'.p.FromMe THEN 1 ELSE 0)
      ]_vars

\* a stored media row hit by a payload with empty keys, no length, a
\* later time: keys and length stay, ts is the new one
C24_Witness ==
    /\ call.op = "UpsertMessage" /\ ~call.err
    /\ call.p.MediaKey = "" /\ call.p.FileLength = 0 /\ call.p.Timestamp = 2
    /\ \E r \in RowsOf(messages, call.p.ChatJID, call.p.MsgID) :
          /\ r.media_key = "k1" /\ r.file_sha256 = "h1"
          /\ r.file_enc_sha256 = "e1" /\ r.file_length = 10
          /\ r.ts = 2

\* a stored media row hit by another media payload: keys and length are
\* the new ones
C24Replaced ==
    /\ call.op = "UpsertMessage" /\ ~call.err /\ call.p.MediaKey = "k2"
    /\ nextRowid = 2
    /\ \E r \in RowsOf(messages, call.p.ChatJID, call.p.MsgID) :
          r.media_key = "k2" /\ r.file_length = 20 /\ r.media_type = "video"
    /\ ops >= 2

-----------------------------------------------------------------------------
(* SpecOrder: two UpsertMessage payloads for one (chat_jid, msg_id), as a
   live event and a history batch deliver them, applied in both orders to
   a table without the row: messages holds the table of "A then B",
   db.ba the table of "B then A". *)

OrderKey == <<"c1@s.whatsapp.net", "m1">>

OrderPayloads == { s @@ ZeroParams(OrderKey[1], OrderKey[2]) : s \in ParamShapes }

InitOrder ==
    /\ chats = UpsertChat([j \in ChatJIDs |-> NoRow], OrderKey[1], "dm", "Alice", 1)
    /\ messages = {}
    /\ nextRowid = 1
    /\ call = NoCall
    /\ supplied = [j \in ChatJIDs |-> {}]
    /\ ops = 0
    /\ \E A \in OrderPayloads, B \in OrderPayloads :
          db = [pc |-> "order", A |-> A, B |-> B, ba |-> {}, baRowid |-> 1]
    /\ sync = NoSync /\ send = NoSend

\* the first write of each order, then the second
OrderApply ==
    /\ db.pc = "order" /\ ops < 2
    /\ LET pab == IF ops = 0 THEN db.A ELSE db.B
           pba == IF ops = 0 THEN db.B ELSE db.A
           ab == UpsertMessage(chats, messages, nextRowid, pab)
           ba == UpsertMessage(chats, db.ba, db.baRowid, pba)
       IN  /\ messages' = ab.messages
           /\ nextRowid' = ab.nextRowid
           /\ db' = [db EXCEPT !.ba = ba.messages, !.baRowid = ba.nextRowid]
           /\ call' = [op |-> "UpsertMessage", p |-> pab, err |-> ab.err]
    /\ ops' = ops + 1
    /\ UNCHANGED <<chats, supplied, sync, send>>

NextOrder == OrderApply

SpecOrder == InitOrder /\ [][NextOrder]_vars

C25Columns ==
    {"rowid", "chat_jid", "chat_name", "msg_id", "sender_jid", "sender_name",
     "text", "display_text", "media_type", "media_caption", "filename",
     "mime_type", "direct_path", "media_key", "file_sha256", "file_enc_sha256",
     "file_length", "local_path", "downloaded_at", "reaction_to_id",
     "reaction_emoji"}

\* the columns the update sets to the incoming value, ts and from_me aside
C25Overwritten == {"sender_jid", "text", "media_type", "media_caption"}

\* the two orders agree on the columns cols
C25Agree(cols) ==
    \A r \in messages : \A q \in db.ba : \A c \in cols : r[c] = q[c]

\* C25: two payloads for the same (chat_jid, msg_id) applied in either
\* order give rows that agree on every column except ts and from_me.
C25_OrderIndependent ==
    ops = 2 => C25Agree(C25Columns)

\* the value a payload binds to a column
C25Bound(p, c) == ExcludedRow(p)[c]

\* C25 for what does hold: one row in either order, with the same rowid
\* and key; ts and from_me, and the columns set to the incoming value, are
\* those of the payload applied last; any other column agrees unless both
\* payloads carry a value for it and the values differ (an empty key or
\* hash may be NULL in one order and zero-length in the other)
C25Rest ==
    ops = 2 =>
        /\ Cardinality(messages) = 1 /\ Cardinality(db.ba) = 1
        /\ C25Agree({"rowid", "chat_jid", "msg_id", "local_path", "downloaded_at"})
        /\ \A r \in messages : \A q \in db.ba :
              /\ \A c \in C25Overwritten \cup {"ts", "from_me"} :
                    r[c] = C25Bound(db.B, c) /\ q[c] = C25Bound(db.A, c)
              /\ \A c \in C25Columns \ (C25Overwritten \cup {"file_length"}) :
                    (r[c] # q[c] /\ {r[c], q[c]} # {NULL, ""}) =>
                        /\ C25Bound(db.A, c) \notin {NULL, ""}
                        /\ C25Bound(db.B, c) \notin {NULL, ""}
                        /\ C25Bound(db.A, c) # C25Bound(db.B, c)
              /\ r.file_length # q.file_length =>
                    /\ db.A.FileLength > 0 /\ db.B.FileLength > 0
                    /\ db.A.FileLength # db.B.FileLength

\* a text message and a payload without text: the text is there in one
\* order and NULL in the other
C25TextLost ==
    /\ ops = 2 /\ db.A.Text = "hello" /\ db.B.Text = ""
    /\ \A r \in messages : r.text = NULL
    /\ \A q \in db.ba : q.text = "hello"

-----------------------------------------------------------------------------
(* Claims on the atomicity of a migration step and its record, in
   SpecMigrate *)

\* the store file is at rest: no ensureSchema is running on it
C26AtRest == db.pc \in {"closed", "open", "failed"}

\* C26: whenever the store is at rest, also after a failed step or after
\* the process ended between a step and its ledger insert, a version is
\* in the ledger if and only if the changes of its step are fully present.
C26_StepAndRecordAtomic ==
    C26AtRest =>
        \A v \in Versions :
            v \in LedgerVersions(db) <=> (v \in db.schema /\ v \notin db.partial)

\* C26 for what does hold: apart from the full-text step a recorded
\* version has its changes fully present
C26Rest ==
    \A v \in LedgerVersions(db) \ BestEffort :
        v \in db.schema /\ v \notin db.partial

\* the changes of step 1 are present and the ledger does not have it: the
\* process ended between the step and its insert
C26Unrecorded ==
    /\ db.pc = "closed" /\ db.opens = 1
    /\ 1 \in db.schema /\ 1 \notin LedgerVersions(db)

\* version 3 is in the ledger and the store has no full-text index
C26RecordedWithout ==
    /\ db.pc = "open" /\ 3 \in LedgerVersions(db) /\ 3 \notin db.schema

-----------------------------------------------------------------------------
(* SpecFTS: the full-text index from migrateMessagesFTS on, over openings
   of one store file.  db.table is the messages_fts table ("old": without
   the display_text column, as the schema before the migrations made it),
   db.triggers the triggers on messages, db.index the rows of messages_fts,
   db.ledger3 whether version 3 is recorded, db.ftsEnabled the flag of the
   process that has the store open, db.legacy whether the file began with
   the old schema. *)

MaxFtsOpens == 2
MaxFtsWrites == 2

FtsKey == <<"c1@s.whatsapp.net", "m1">>

\* the payloads written: two texts and a media message on one key, a text
\* on another
FtsPayloads ==
    { [Timestamp |-> 1, SenderName |-> "Alice", Text |-> "hello",
       DisplayText |-> "hello"] @@ ZeroParams(FtsKey[1], FtsKey[2]),
      [Timestamp |-> 2, ChatName |-> "Alice", Text |-> "bye",
       DisplayText |-> "bye"] @@ ZeroParams(FtsKey[1], FtsKey[2]),
      [Timestamp |-> 2, MediaType |-> "image", MediaCaption |-> "cap",
       Filename |-> "a.jpg", DisplayText |-> "Sent image"]
          @@ ZeroParams(FtsKey[1], FtsKey[2]),
      [Timestamp |-> 1, Text |-> "hello", DisplayText |-> "hello"]
          @@ ZeroParams(FtsKey[1], "m2") }

\* the VALUES of the INSERT INTO messages_fts of the triggers and of the
\* backfill; the triggers of the old schema name no display_text
IndexEntry(r, triggers) ==
    [rowid |-> r.rowid,
     text |-> Coalesce(r.text), media_caption |-> Coalesce(r.media_caption),
     filename |-> Coalesce(r.filename), chat_name |-> Coalesce(r.chat_name),
     sender_name |-> Coalesce(r.sender_name),
     display_text |-> IF triggers = "new" THEN Coalesce(r.display_text) ELSE ""]

\* the backfill of lines 233-248: only when this call created the table
BackfillIfCreated(created, index, msgs) ==
    IF created THEN { IndexEntry(r, "new") : r \in msgs } ELSE index

\* UpsertMessage with the triggers messages_ai and messages_au: one
\* statement, whose failure in a trigger undoes the row write
UpsertWithTriggers(d, chatTbl, msgs, rowid, p) ==
    LET res == UpsertMessage(chatTbl, msgs, rowid, p)
        hit == UniqueConflicts(msgs, ExcludedRow(p))
        new == RowsOf(res.messages, p.ChatJID, p.MsgID)
        kept == { e \in d.index : \A r \in hit : e.rowid # r.rowid }
        same == [err |-> TRUE, messages |-> msgs, nextRowid |-> rowid,
                 index |-> d.index]
    IN  IF res.err THEN same
        ELSE IF d.triggers = "none"
        THEN [err |-> FALSE, messages |-> res.messages,
              nextRowid |-> res.nextRowid, index |-> d.index]
        ELSE IF d.table = "none" THEN same
        ELSE IF \E e \in kept : \E r \in new : e.rowid = r.rowid THEN same
        ELSE [err |-> FALSE, messages |-> res.messages,
              nextRowid |-> res.nextRowid,
              index |-> kept \cup { IndexEntry(r, d.triggers) : r \in new }]

FtsClosed(table, triggers, index) ==
    [pc |-> "closed", table |-> table, triggers |-> triggers, index |-> index,
     ledger3 |-> FALSE, ftsEnabled |-> FALSE, created |-> FALSE,
     legacy |-> (table = "old"), opens |-> 0, writes |-> 0]

\* a store file never opened, or one that the schema before the
\* migrations left with a message and its index entry
InitFTS ==
    /\ chats = UpsertChat([j \in ChatJIDs |-> NoRow], FtsKey[1], "dm", "Alice", 1)
    /\ call = NoCall
    /\ supplied = [j \in ChatJIDs |-> {}]
    /\ ops = 0
    /\ sync = NoSync /\ send = NoSend
    /\ \/ /\ messages = {} /\ nextRowid = 1
          /\ db = FtsClosed("none", "none", {})
       \/ \E p \in FtsPayloads :
            LET res == UpsertWithTriggers(FtsClosed("old", "old", {}), chats, {}, 1, p)
            IN  /\ messages = res.messages /\ nextRowid = res.nextRowid
                /\ db = FtsClosed("old", "old", res.index)

\* Open up to migrateMessagesFTS: with version 3 in the ledger the step
\* is skipped and the flag stays false
FtsOpen ==
    /\ db.pc \in {"closed", "failed"} /\ db.opens < MaxFtsOpens
    /\ db' = [db EXCEPT !.pc = IF db.ledger3 THEN "open" ELSE "check",
                        !.ftsEnabled = FALSE, !.created = FALSE,
                        !.opens = @ + 1]
    /\ UNCHANGED <<chats, messages, nextRowid, call, supplied, ops, sync, send>>

\* lines 172-187: a table without display_text is dropped
FtsCheck ==
    /\ db.pc = "check"
    /\ IF db.table = "old"
       THEN \/ db' = [db EXCEPT !.pc = "create", !.table = "none", !.index = {}]
            \/ db' = [db EXCEPT !.pc = "failed"]
       ELSE db' = [db EXCEPT !.pc = "create"]
    /\ UNCHANGED <<chats, messages, nextRowid, call, supplied, ops, sync, send>>

\* lines 189-206
FtsCreate ==
    /\ db.pc = "create"
    /\ IF db.table = "none"
       THEN \/ db' = [db EXCEPT !.pc = "triggers", !.table = "new", !.index = {},
                                !.created = TRUE]
            \/ db' = [db EXCEPT !.pc = "record", !.ftsEnabled = FALSE]
       ELSE db' = [db EXCEPT !.pc = "triggers"]
    /\ UNCHANGED <<chats, messages, nextRowid, call, supplied, ops, sync, send>>

\* lines 208-231: the script runs, or it fails before or after its DROPs
FtsTriggers ==
    /\ db.pc = "triggers"
    /\ \/ db' = [db EXCEPT !.pc = "backfill", !.triggers = "new"]
       \/ \E t \in {db.triggers, "none"} :
            db' = [db EXCEPT !.pc = "record", !.triggers = t, !.ftsEnabled = FALSE]
    /\ UNCHANGED <<chats, messages, nextRowid, call, supplied, ops, sync, send>>

\* lines 233-251
FtsBackfill ==
    /\ db.pc = "backfill"
    /\ \/ db' = [db EXCEPT !.pc = "record", !.ftsEnabled = TRUE,
                           !.index = BackfillIfCreated(db.created, @, messages)]
       \/ /\ db.created
          /\ db' = [db EXCEPT !.pc = "record", !.ftsEnabled = FALSE]
    /\ UNCHANGED <<chats, messages, nextRowid, call, supplied, ops, sync, send>>

\* the INSERT into schema_migrations for version 3, whose failure fails Open
FtsRecord ==
    /\ db.pc = "record"
    /\ \/ db' = [db EXCEPT !.pc = "open", !.ledger3 = TRUE]
       \/ db' = [db EXCEPT !.pc = "failed", !.ftsEnabled = FALSE]
    /\ UNCHANGED <<chats, messages, nextRowid, call, supplied, ops, sync, send>>

\* the process ends, in the middle of Open or with the store open
FtsExit ==
    /\ db.pc \in {"check", "create", "triggers", "backfill", "record", "open"}
    /\ db' = [db EXCEPT !.pc = "closed", !.ftsEnabled = FALSE]
    /\ UNCHANGED <<chats, messages, nextRowid, call, supplied, ops, sync, send>>

FtsUpsert ==
    /\ db.pc = "open" /\ db.writes < MaxFtsWrites
    /\ \E p \in FtsPayloads :
         LET res == UpsertWithTriggers(db, chats, messages, nextRowid, p)
         IN  /\ messages' = res.messages
             /\ nextRowid' = res.nextRowid
             /\ db' = [db EXCEPT !.index = res.index, !.writes = @ + 1]
             /\ call' = [op |-> "UpsertMessage", p |-> p, err |-> res.err]
    /\ UNCHANGED <<chats, supplied, ops, sync, send>>

NextFTS ==
    \/ FtsOpen \/ FtsCheck \/ FtsCreate \/ FtsTriggers \/ FtsBackfill
    \/ FtsRecord \/ FtsExit \/ FtsUpsert

SpecFTS == InitFTS /\ [][NextFTS]_vars

\* one index entry per message row, with the row's rowid and its current
\* six columns
C27Lockstep == db.index = { IndexEntry(r, "new") : r \in messages }

\* C27: while the store is open with the full-text index enabled, the
\* index holds exactly one entry per message row, keyed by the rowid and
\* equal to the row's current text, media_caption, filename, chat_name,
\* sender_name and display_text, after initialization and after every
\* UpsertMessage.
C27_IndexInLockstep ==
    (db.pc = "open" /\ db.ftsEnabled) => C27Lockstep

\* C27 for the writes: with the index enabled and in lockstep, an
\* UpsertMessage (insert or conflict update) leaves it in lockstep, the
\* row and its entry changing in the same step
C27Rest ==
    [][(db.pc = "open" /\ db.ftsEnabled /\ C27Lockstep /\ db'.pc = "open") =>
          C27Lockstep']_vars

\* C27 on a store file that was new at its first opening
C27Fresh == (~db.legacy /\ db.pc = "open" /\ db.ftsEnabled) => C27Lockstep

\* the store is open with the index enabled, a message row and no entry
C27Stale ==
    /\ db.pc = "open" /\ db.ftsEnabled /\ db.writes = 0
    /\ messages # {} /\ db.index = {}

\* a conflict update with the index enabled and in lockstep
C27Updated ==
    /\ db.pc = "open" /\ db.ftsEnabled /\ C27Lockstep /\ db.writes = 2
    /\ nextRowid = 2 /\ call.op = "UpsertMessage" /\ ~call.err
    /\ \E r \in messages : r.text = "bye" /\ r.sender_name = "Alice"

-----------------------------------------------------------------------------
(* Claims on the effect of a successful ReplaceGroupParticipants, in
   SpecGroups *)

\* the rows of a group in a table
C28RowsOf(table, g) == { r \in table : r.group_jid = g }

\* the users the call names
C28Users == { call.participants[i].UserJID : i \in DOMAIN call.participants }

\* C28: after a successful ReplaceGroupParticipants(g, P) the users stored
\* for g are exactly those of P, so that every earlier participant not in
\* P is gone; each is stored once, with the role given for it, or with
\* 'member' when that role is empty or blank; and the rows of every other
\* group are as before.
C28_ReplacedWholesale ==
    (call.op = "replace" /\ ~call.err) =>
        /\ { r.user_jid : r \in C28RowsOf(db.participants, call.group) } = C28Users
        /\ \A r \in C28RowsOf(call.before, call.group) :
              r.user_jid \notin C28Users =>
                  \A q \in db.participants :
                      ~(q.group_jid = call.group /\ q.user_jid = r.user_jid)
        /\ \A i \in DOMAIN call.participants :
              \E r \in C28RowsOf(db.participants, call.group) :
                  /\ r.user_jid = call.participants[i].UserJID
                  /\ r.role = IF call.participants[i].Role \in {"", " "}
                              THEN "member" ELSE call.participants[i].Role
                  /\ \A q \in C28RowsOf(db.participants, call.group) :
                        q.user_jid = r.user_jid => q = r
        /\ \A g \in GroupJIDs \ {call.group} :
              C28RowsOf(db.participants, g) = C28RowsOf(call.before, g)

\* a group with an admin is refreshed with a list that has only a member
\* with the empty role, while another group has participants
C28_Witness ==
    /\ call.op = "replace" /\ ~call.err /\ call.group = "g1@g.us"
    /\ \E r \in call.before :
          r.group_jid = "g1@g.us" /\ r.user_jid = "u1@s.whatsapp.net"
    /\ C28Users = {"u2@s.whatsapp.net"}
    /\ call.participants[1].Role = ""
    /\ C28RowsOf(db.participants, "g1@g.us") =
          { [group_jid |-> "g1@g.us", user_jid |-> "u2@s.whatsapp.net",
             role |-> "member"] }
    /\ C28RowsOf(db.participants, "g2@g.us") # {}

-----------------------------------------------------------------------------
(* Claims on the correlation of history batches with backfill requests, in
   SpecBackfill *)

\* the step in which an event reaches BackfillHistory's handler
C29Arrives == sync.pending = NoBatch /\ sync'.pending # NoBatch

\* the conversations of a batch that carry the requested chat's identifier
C29Hits(evt) == { i \in DOMAIN evt.convs : evt.convs[i].ID = BackfillChat }

\* the batch is of the on-demand type and has a conversation of the chat
C29Matches(evt) == evt.syncType = "ON_DEMAND" /\ C29Hits(evt) # {}

\* C29: a history batch puts a response on the channel of a waiting
\* request only if its sync type is on-demand and one of its conversations
\* has the requested chat's identifier; a batch of another type or for
\* other chats leaves channel and response counter as they are; the
\* response counter grows only by one, by a round taking a response from
\* its channel, which ends the round's wait, so that it never exceeds the
\* request counter; and a matching batch that arrives while no round
\* waits changes neither channel nor counter, the handler returning so
\* that the event goes on to the next handler.
C29_CorrelatedResponses ==
    /\ [][(C29Arrives /\ sync'.waitCh # sync.waitCh) =>
            /\ C29Matches(sync'.pending[1])
            /\ ~sync.waitCh.nil
            /\ \E i \in C29Hits(sync'.pending[1]) :
                  sync'.waitCh.buf =
                      Append(sync.waitCh.buf,
                             [messages |-> Len(sync'.pending[1].convs[i].messages),
                              endType |-> sync'.pending[1].endType,
                              batch |-> sync'.pending[1].convs[i].messages])]_vars
    /\ [][(C29Arrives /\ ~C29Matches(sync'.pending[1])) =>
            /\ sync'.waitCh = sync.waitCh
            /\ sync'.responsesSeen = sync.responsesSeen]_vars
    /\ [][C29Arrives => sync'.responsesSeen = sync.responsesSeen]_vars
    /\ [][sync'.responsesSeen # sync.responsesSeen =>
            /\ sync.pc = "wait" /\ sync.waitCh.buf # <<>>
            /\ sync'.responsesSeen = sync.responsesSeen + 1
            /\ sync'.resp = Head(sync.waitCh.buf)
            /\ sync'.pc = "check" /\ sync'.waitCh.nil]_vars
    /\ [](sync.pc # "none" =>
            /\ sync.responsesSeen <= sync.requestsSent
            /\ sync.responsesSeen <= sync.roundSeen + 1)
    /\ [][(C29Arrives /\ C29Matches(sync'.pending[1]) /\ sync.waitCh.nil) =>
            /\ sync'.waitCh = sync.waitCh
            /\ sync'.responsesSeen = sync.responsesSeen
            /\ sync'.pc = sync.pc]_vars

\* a request waits, a batch of another type for the chat has arrived, and
\* the channel is empty
C29_Witness ==
    /\ sync.pc = "wait" /\ ~sync.waitCh.nil /\ sync.waitCh.buf = <<>>
    /\ sync.pending # NoBatch
    /\ sync.pending[1].syncType = "RECENT"
    /\ sync.pending[1].convs[1].ID = BackfillChat
    /\ sync.responsesSeen = 0

\* a request waits, an on-demand batch for another chat has arrived, and
\* the channel is empty
C29OtherChat ==
    /\ sync.pc = "wait" /\ ~sync.waitCh.nil /\ sync.waitCh.buf = <<>>
    /\ sync.pending # NoBatch
    /\ sync.pending[1].syncType = "ON_DEMAND"
    /\ C29Hits(sync.pending[1]) = {}

\* a matching batch has arrived after the round took its response
C29Dropped ==
    /\ sync.pc = "check" /\ sync.waitCh.nil
    /\ sync.pending # NoBatch /\ C29Matches(sync.pending[1])
    /\ sync.events = 2 /\ sync.responsesSeen = 1

\* two responses on the channel of one round, of which it takes one
C29TwoQueued ==
    /\ sync.pc = "wait" /\ Len(sync.waitCh.buf) = 2

-----------------------------------------------------------------------------
(* Claims on the no-progress check and the storing of a response, in
   SpecBackfill *)

\* the messages of the response the round took that are older than the
\* anchor of its request
C30Older ==
    { i \in DOMAIN sync.resp.batch :
        /\ ~sync.resp.batch[i].nilMessage
        /\ sync.resp.batch[i].t < sync.reqInfo.Timestamp }

\* the request loop stopped because the oldest message was unchanged
C30NoProgress ==
    sync.pc \in {"syncLoop", "returned"} /\ sync.reason = "no progress"

\* C30: the no-progress check after a response sees the messages of that
\* response: the backfill never stops with 'no older messages were
\* added' on a response that carries a message older than the anchor.
C30_CheckSeesResponse == C30NoProgress => C30Older = {}

\* what holds: the loop stops for no progress on a response with an older
\* message only while Sync's handler has not stored the batch, and once
\* the handler is through with it the oldest message of the chat is
\* older than the anchor
C30Rest ==
    /\ [][(sync.pc = "check" /\ sync'.pc = "syncLoop"
             /\ sync'.reason = "no progress" /\ C30Older # {}) =>
            sync.pending # NoBatch]_vars
    /\ []((sync.pc = "check" /\ C30Older # {} /\ sync.pending = NoBatch) =>
            \E m \in messages : /\ m.chat_jid = BackfillChat
                                /\ m.ts < sync.reqInfo.Timestamp)

\* the backfill returned after one request, for no progress, on a
\* response with an older message that is in the store by now
C30Stopped ==
    /\ sync.pc = "returned" /\ sync.result = "ok" /\ sync.reason = "no progress"
    /\ sync.opt = 2 /\ sync.requestsSent = 1 /\ sync.pending = NoBatch
    /\ C30Older # {} /\ sync.resp.endType = "more"
    /\ \E m \in messages : /\ m.chat_jid = BackfillChat
                           /\ m.ts < sync.reqInfo.Timestamp

\* the check after the handler stored the batch: the loop goes on
C30Continued ==
    /\ sync.pc = "loop" /\ sync.i = 1 /\ C30Older # {}

-----------------------------------------------------------------------------
(* SpecMedia: one Sync call with its media queue.  sync.queue is the
   mediaJobs channel, sync.retries the state of the goroutine each job
   that found the queue full was handed to.  The workers of
   runMediaWorkers, which this source does not include, take jobs from the
   queue between their start and stopMedia. *)

MaxMediaEvents == 3

\* capacity of mediaJobs, 512 in the program
MediaQueueCap == 1

MediaEventIDs == {"", "m1", "m2"}

MediaBodies == { b \in PMBodies : b.ReactionToID = "" }

\* the job of the n-th event
MediaJob(chatJID, msgID, n) == [chatJID |-> chatJID, msgID |-> msgID, n |-> n]

\* an enqueue that gives up on a full queue
enqueueOrDrop(s, chatJID, msgID) ==
    IF ~s.download \/ TrimSpace(chatJID) = "" \/ TrimSpace(msgID) = "" THEN s
    ELSE IF Len(s.queue) < MediaQueueCap
    THEN [s EXCEPT !.queue = Append(@, MediaJob(chatJID, msgID, s.events + 1))]
    ELSE s

\* enqueueMedia: nothing without DownloadMedia or for a blank chat or id;
\* else the non-blocking send on mediaJobs, and on a full queue a new
\* goroutine that is given the job
enqueueMedia(s, chatJID, msgID) ==
    IF ~s.download \/ TrimSpace(chatJID) = "" \/ TrimSpace(msgID) = "" THEN s
    ELSE IF Len(s.queue) < MediaQueueCap
    THEN [s EXCEPT !.queue = Append(@, MediaJob(chatJID, msgID, s.events + 1))]
    ELSE [s EXCEPT !.retries = @ @@ (s.events + 1 :>
                       [job |-> MediaJob(chatJID, msgID, s.events + 1),
                        state |-> "waiting"])]

MediaStart(download) ==
    [pc |-> "connect", download |-> download, workers |-> FALSE,
     queue |-> <<>>, retries |-> << >>, taken |-> {},
     events |-> 0, stored |-> 0, cancelled |-> FALSE,
     last |-> [media |-> FALSE, id |-> "", chat |-> "", full |-> FALSE]]

InitMedia ==
    /\ StoreInit /\ send = NoSend
    /\ sync \in { MediaStart(d) : d \in BOOLEAN }

\* a.Connect succeeds and, with DownloadMedia, runMediaWorkers starts the
\* workers; or one of the two fails and Sync returns
MediaConnect ==
    /\ sync.pc = "connect"
    /\ \/ sync' = [sync EXCEPT !.pc = "loop", !.workers = sync.download]
       \/ sync' = [sync EXCEPT !.pc = "returned"]
    /\ UNCHANGED <<storeVars, send>>

\* events.Message reaches the handler: the message is stored and counted,
\* its job enqueued when it carries media and has an id
MediaMessage ==
    /\ sync.pc \in {"connect", "loop"} /\ sync.events < MaxMediaEvents
    /\ \E chat \in {BackfillChat}, id \in MediaEventIDs, body \in MediaBodies :
         LET pm == ParsedMessage(chat, id, 1, body)
             res == storeParsedMessage(TheStore, pm, "", "")
             s1 == IF res.err THEN sync ELSE [sync EXCEPT !.stored = @ + 1]
             s2 == IF sync.download /\ pm.Media # NoMedia /\ pm.ID # ""
                   THEN enqueueMedia(s1, pm.Chat, pm.ID) ELSE s1
         IN  /\ chats' = res.chats
             /\ messages' = res.messages
             /\ nextRowid' = res.nextRowid
             /\ sync' = [s2 EXCEPT !.events = @ + 1,
                           !.last = [media |-> pm.Media # NoMedia, id |-> pm.ID,
                                     chat |-> pm.Chat,
                                     full |-> Len(sync.queue) >= MediaQueueCap]]
    /\ UNCHANGED <<call, supplied, ops, db, send>>

\* the select of a retry goroutine: the job is delivered when the queue
\* has room, or ctx is done
MediaRetry ==
    /\ sync.pc # "none"
    /\ \E n \in DOMAIN sync.retries :
         /\ sync.retries[n].state = "waiting"
         /\ \/ /\ Len(sync.queue) < MediaQueueCap
               /\ sync' = [sync EXCEPT !.queue = Append(@, sync.retries[n].job),
                                       !.retries[n].state = "delivered"]
            \/ /\ sync.cancelled
               /\ sync' = [sync EXCEPT !.retries[n].state = "cancelled"]
    /\ UNCHANGED <<storeVars, send>>

\* a worker takes the next job from the queue
MediaWorker ==
    /\ sync.pc # "none" /\ sync.workers /\ sync.queue # <<>>
    /\ sync' = [sync EXCEPT !.queue = Tail(@),
                            !.taken = @ \cup {Head(sync.queue).n}]
    /\ UNCHANGED <<storeVars, send>>

\* the caller cancels ctx
MediaCancel ==
    /\ sync.pc # "none" /\ ~sync.cancelled
    /\ sync' = [sync EXCEPT !.cancelled = TRUE]
    /\ UNCHANGED <<storeVars, send>>

\* Sync returns from its loop (idle, cancelled, or a failed reconnect):
\* stopMedia, and the handler is removed
MediaReturn ==
    /\ sync.pc = "loop"
    /\ sync' = [sync EXCEPT !.pc = "returned", !.workers = FALSE]
    /\ UNCHANGED <<storeVars, send>>

NextMedia ==
    MediaConnect \/ MediaMessage \/ MediaRetry \/ MediaWorker \/ MediaCancel
        \/ MediaReturn

SpecMedia == InitMedia /\ [][NextMedia]_vars

\* a retry goroutine whose select has a ready case takes it
SpecMediaFair == SpecMedia /\ WF_vars(MediaRetry)

\* the step in which the handler runs on an event
C31Handled == sync'.events = sync.events + 1

\* the message of the event carries media and has a non-empty chat and id
C31Job == sync'.last.media /\ sync'.last.id # "" /\ sync'.last.chat # ""

\* the retries that wait
C31Waiting(s) == { n \in DOMAIN s.retries : s.retries[n].state = "waiting" }

\* C31: enqueuing a media job never blocks the handler.  With media
\* download enabled, the job of a message with media, chat and id goes to
\* the queue when it has room and to a new background retry when it is
\* full, in the one step in which the handler handles the event; no
\* other message and no call without media download enqueues anything.
\* A retry ends only by putting its job on the queue, once, or with the
\* context cancelled, and once the context is cancelled no retry is left
\* waiting.
C31_EnqueueNeverBlocks ==
    /\ [][C31Handled =>
            LET job == MediaJob(sync'.last.chat, sync'.last.id, sync'.events)
            IN  IF sync.download /\ C31Job
                THEN IF Len(sync.queue) < MediaQueueCap
                     THEN /\ sync'.queue = Append(sync.queue, job)
                          /\ sync'.retries = sync.retries
                     ELSE /\ sync'.queue = sync.queue
                          /\ C31Waiting(sync') = C31Waiting(sync) \cup {sync'.events}
                          /\ sync'.retries[sync'.events].job = job
                ELSE sync'.queue = sync.queue /\ sync'.retries = sync.retries]_vars
    /\ [][\A n \in DOMAIN sync.retries :
            sync'.retries[n] # sync.retries[n] =>
               /\ sync.retries[n].state = "waiting"
               /\ sync'.retries[n].job = sync.retries[n].job
               /\ \/ /\ sync'.retries[n].state = "delivered"
                     /\ sync'.queue = Append(sync.queue, sync.retries[n].job)
                  \/ /\ sync'.retries[n].state = "cancelled"
                     /\ sync.cancelled /\ sync'.queue = sync.queue]_vars
    /\ (sync.pc # "none" /\ sync.cancelled) ~>
            (sync.pc # "none" /\ C31Waiting(sync) = {})

\* the handler has handed a job to a retry because the queue was full,
\* and has handled the next event since
C31_Witness ==
    /\ sync.download /\ sync.events = 3
    /\ 2 \in DOMAIN sync.retries /\ sync.retries[2].state = "waiting"
    /\ Len(sync.queue) = MediaQueueCap /\ ~sync.cancelled

\* a retry delivered its job
C31Delivered ==
    \E n \in DOMAIN sync.retries :
        sync.retries[n].state = "delivered" /\ n \in sync.taken

\* a retry ended on cancellation
C31Cancelled ==
    \E n \in DOMAIN sync.retries : sync.retries[n].state = "cancelled"

\* Sync has returned, the context is not cancelled, and a retry waits
C31Outlasts ==
    /\ sync.pc = "returned" /\ ~sync.cancelled /\ C31Waiting(sync) # {}

-----------------------------------------------------------------------------
(* SpecReconnect: one call of ReconnectWithBackoff(ctx, minDelay, maxDelay).
   Delays are in seconds; sync.waits lists the delays of the waits begun. *)

MaxAttempts == 5

\* the delays of the calls considered, the program's 2s and 30s among them
ReconnectDelays == { <<1, 1>>, <<1, 4>>, <<2, 30>>, <<3, 8>>, <<0, 2>> }

\* a delay that doubles without a cap
DoubleDelay(delay, maxDelay) == 2 * delay

\* delay *= 2; if delay > maxDelay { delay = maxDelay }
NextDelay(delay, maxDelay) ==
    IF 2 * delay > maxDelay THEN maxDelay ELSE 2 * delay

ReconnectStart(minDelay, maxDelay) ==
    [pc |-> "head", minDelay |-> minDelay, maxDelay |-> maxDelay,
     delay |-> minDelay, attempts |-> 0, waits |-> <<>>,
     cancelled |-> FALSE, seen |-> "", result |-> "none"]

InitReconnect ==
    /\ StoreInit /\ send = NoSend
    /\ sync \in { ReconnectStart(p[1], p[2]) : p \in ReconnectDelays }

\* the head of the loop: ctx.Err(), then Connect, which returns nil or an
\* error; after an error the select begins
ReconnectAttempt ==
    /\ sync.pc = "head"
    /\ IF sync.cancelled
       THEN sync' = [sync EXCEPT !.pc = "returned", !.result = "ctx",
                                 !.seen = "head"]
       ELSE /\ sync.attempts < MaxAttempts
            /\ \/ sync' = [sync EXCEPT !.pc = "returned", !.result = "nil",
                                       !.attempts = @ + 1]
               \/ sync' = [sync EXCEPT !.pc = "wait", !.attempts = @ + 1,
                                       !.waits = Append(@, sync.delay)]
    /\ UNCHANGED <<storeVars, send>>

\* the select: ctx.Done(), or time.After(delay) and the next delay
ReconnectWait ==
    /\ sync.pc = "wait"
    /\ \/ /\ sync.cancelled
          /\ sync' = [sync EXCEPT !.pc = "returned", !.result = "ctx",
                                  !.seen = "wait"]
       \/ sync' = [sync EXCEPT !.pc = "head",
                               !.delay = NextDelay(@, sync.maxDelay)]
    /\ UNCHANGED <<storeVars, send>>

\* the caller cancels ctx
ReconnectCancel ==
    /\ sync.pc \in {"head", "wait"} /\ ~sync.cancelled
    /\ sync' = [sync EXCEPT !.cancelled = TRUE]
    /\ UNCHANGED <<storeVars, send>>

ReconnectStep == ReconnectAttempt \/ ReconnectWait

NextReconnect == ReconnectStep \/ ReconnectCancel

SpecReconnect == InitReconnect /\ [][NextReconnect]_vars

\* the loop's own steps are taken
SpecReconnectFair == SpecReconnect /\ WF_vars(ReconnectStep)

RECURSIVE C32Pow2(_)
C32Pow2(n) == IF n = 0 THEN 1 ELSE 2 * C32Pow2(n - 1)

C32Smaller(a, b) == IF a < b THEN a ELSE b

\* C32: ReconnectWithBackoff retries Connect until it succeeds or the
\* context is cancelled.  It returns only nil, on the first successful
\* Connect, or the context's error, with the context cancelled; the wait
\* after the k-th failed attempt is the smaller of min * 2^(k-1) and max;
\* once the context is cancelled no further attempt is made, and the
\* call returns the context's error.
C32_BackoffSchedule ==
    /\ [](sync.pc # "none" =>
            /\ \A k \in DOMAIN sync.waits :
                  sync.waits[k] = C32Smaller(sync.minDelay * C32Pow2(k - 1),
                                             sync.maxDelay)
            /\ sync.result = "nil" => sync.attempts = Len(sync.waits) + 1
            /\ sync.result = "ctx" =>
                  sync.cancelled /\ sync.attempts = Len(sync.waits)
            /\ sync.pc = "returned" => sync.result \in {"nil", "ctx"}
            /\ sync.pc = "wait" => sync.attempts = Len(sync.waits))
    /\ [][(sync.pc # "none" /\ sync.cancelled) =>
            /\ sync'.attempts = sync.attempts
            /\ sync'.waits = sync.waits
            /\ sync'.result \in {"none", "ctx"}]_vars
    /\ [][(sync.pc = "head" /\ sync'.pc = "wait") =>
            sync'.attempts = sync.attempts + 1]_vars
    /\ (sync.pc # "none" /\ sync.cancelled) ~>
            (sync.pc = "returned" /\ sync.result = "ctx")

\* the program's call after five failed attempts: waits of 2, 4, 8, 16
\* and 30 seconds
C32_Witness ==
    /\ sync.pc = "wait" /\ sync.minDelay = 2 /\ sync.maxDelay = 30
    /\ sync.waits = <<2, 4, 8, 16, 30>>

\* cancelled during a wait, after two failed attempts
C32CancelledInWait ==
    /\ sync.pc = "returned" /\ sync.result = "ctx" /\ sync.seen = "wait"
    /\ sync.attempts = 2

\* cancelled during a wait whose timer fired first: seen at the head
C32CancelledAtHead ==
    /\ sync.pc = "returned" /\ sync.result = "ctx" /\ sync.seen = "head"
    /\ sync.attempts = 1

\* nil after two failed attempts
C32Connected ==
    /\ sync.pc = "returned" /\ sync.result = "nil" /\ sync.attempts = 3

-----------------------------------------------------------------------------
(* SpecHandlers: the event handlers of the session during one call of Sync
   or of BackfillHistory.  sync.handlers is the session's registry, a set
   of [id, owner]; sync.mine holds the ids the call was given.  The
   session runs a handler to its end before a removal takes effect. *)

MaxHandlerEvents == 2

\* what the call is and what it does after connecting
HandlerCalls ==
    { [caller |-> c, download |-> dl, mode |-> m] :
        c \in {"sync", "backfill"}, dl \in BOOLEAN, m \in {"once", "follow"} }

\* the registry before the call: empty, or with a handler of someone else
ForeignHandlers == { {}, { [id |-> 1, owner |-> "other"] } }

\* AddEventHandler: the registry with a new handler, and its id
AddEventHandler(handlers, nextID, owner) ==
    [handlers |-> handlers \cup { [id |-> nextID, owner |-> owner] },
     id |-> nextID, nextID |-> nextID + 1]

\* RemoveEventHandler
RemoveEventHandler(handlers, id) == { h \in handlers : h.id # id }

HandlersStart(c, foreign) ==
    [pc |-> IF c.caller = "backfill" THEN "backfill" ELSE "sync",
     caller |-> c.caller, download |-> c.download, mode |-> c.mode,
     handlers |-> foreign, nextID |-> 2, mine |-> {}, syncID |-> 0,
     backfillID |-> 0, syncRegs |-> 0, events |-> 0, stored |-> 0,
     cancelled |-> FALSE, connected |-> FALSE, path |-> ""]

InitHandlers ==
    /\ StoreInit /\ send = NoSend
    /\ sync \in { HandlersStart(c, f) : c \in HandlerCalls, f \in ForeignHandlers }

\* a return of Sync that leaves its handler in the registry
SyncReturnKeeps(s, why) ==
    [s EXCEPT !.pc = IF s.caller = "backfill" THEN "backfillEnd" ELSE "returned",
              !.path = why]

\* a return of Sync after the registration: the deferred
\* RemoveEventHandler(handlerID) runs
SyncReturn(s, why) ==
    [s EXCEPT !.pc = IF s.caller = "backfill" THEN "backfillEnd" ELSE "returned",
              !.path = why,
              !.handlers = RemoveEventHandler(@, s.syncID)]

\* BackfillHistory up to its call of Sync: EnsureAuthed or OpenWA fails, or
\* the response handler is registered
BackfillRegisters ==
    /\ sync.pc = "backfill"
    /\ \/ sync' = [sync EXCEPT !.pc = "returned", !.path = "auth"]
       \/ LET r == AddEventHandler(sync.handlers, sync.nextID, "backfill")
          IN  sync' = [sync EXCEPT !.pc = "sync", !.handlers = r.handlers,
                                   !.nextID = r.nextID, !.backfillID = r.id,
                                   !.mine = @ \cup {r.id}]
    /\ UNCHANGED <<storeVars, send>>

\* Sync up to Connect: OpenWA fails, or the handler is registered
SyncRegisters ==
    /\ sync.pc = "sync"
    /\ \/ sync' = [sync EXCEPT
                     !.pc = IF sync.caller = "backfill" THEN "backfillEnd"
                            ELSE "returned",
                     !.path = "open"]
       \/ LET r == AddEventHandler(sync.handlers, sync.nextID, "sync")
          IN  sync' = [sync EXCEPT !.pc = "connect", !.handlers = r.handlers,
                                   !.nextID = r.nextID, !.syncID = r.id,
                                   !.mine = @ \cup {r.id},
                                   !.syncRegs = @ + 1]
    /\ UNCHANGED <<storeVars, send>>

\* a.Connect
HandlersConnect ==
    /\ sync.pc = "connect"
    /\ \/ sync' = SyncReturn(sync, "connect")
       \/ sync' = [sync EXCEPT !.pc = IF sync.download THEN "media" ELSE "after",
                               !.connected = TRUE]
    /\ UNCHANGED <<storeVars, send>>

\* runMediaWorkers
HandlersMedia ==
    /\ sync.pc = "media"
    /\ \/ sync' = SyncReturn(sync, "media")
       \/ sync' = [sync EXCEPT !.pc = "after"]
    /\ UNCHANGED <<storeVars, send>>

\* opts.AfterConnect, which BackfillHistory sets
HandlersAfterConnect ==
    /\ sync.pc = "after"
    /\ \/ /\ sync.caller = "backfill"
          /\ sync' = SyncReturn(sync, "afterConnect")
       \/ sync' = [sync EXCEPT !.pc = "loop"]
    /\ UNCHANGED <<storeVars, send>>

\* the select of the loop: ctx.Done, a tick after the idle time (not in
\* follow mode), or a disconnect and ReconnectWithBackoff, which fails or
\* not
HandlersLoop ==
    /\ sync.pc = "loop"
    /\ \/ /\ sync.cancelled
          /\ sync' = SyncReturn(sync, "cancel")
       \/ /\ sync.mode # "follow"
          /\ sync' = SyncReturn(sync, "idle")
       \/ /\ ~sync.connected
          /\ \/ sync' = SyncReturn(sync, "reconnect")
             \/ sync' = [sync EXCEPT !.connected = TRUE]
    /\ UNCHANGED <<storeVars, send>>

\* BackfillHistory after Sync: its deferred RemoveEventHandler
BackfillReturns ==
    /\ sync.pc = "backfillEnd"
    /\ sync' = [sync EXCEPT !.pc = "returned",
                            !.handlers = RemoveEventHandler(@, sync.backfillID)]
    /\ UNCHANGED <<storeVars, send>>

\* the session dispatches a message event: every handler that Sync
\* registered stores it
HandlersEvent ==
    /\ sync.pc # "none" /\ sync.events < MaxHandlerEvents
    /\ \E id \in MsgIDs :
         LET pm == ParsedMessage(BackfillChat, id, 1, TextBody)
             res == storeParsedMessage(TheStore, pm, "", "")
             n == Cardinality({ h \in sync.handlers : h.owner = "sync" })
         IN  IF n = 0
             THEN /\ UNCHANGED <<chats, messages, nextRowid>>
                  /\ sync' = [sync EXCEPT !.events = @ + 1]
             ELSE /\ chats' = res.chats
                  /\ messages' = res.messages
                  /\ nextRowid' = res.nextRowid
                  /\ sync' = [sync EXCEPT !.events = @ + 1, !.stored = @ + n]
    /\ UNCHANGED <<call, supplied, ops, db, send>>

\* events.Disconnected
HandlersDisconnected ==
    /\ sync.pc = "loop" /\ sync.connected
    /\ sync' = [sync EXCEPT !.connected = FALSE]
    /\ UNCHANGED <<storeVars, send>>

HandlersCancel ==
    /\ sync.pc \notin {"none", "returned"} /\ ~sync.cancelled
    /\ sync' = [sync EXCEPT !.cancelled = TRUE]
    /\ UNCHANGED <<storeVars, send>>

NextHandlers ==
    \/ BackfillRegisters \/ SyncRegisters \/ HandlersConnect \/ HandlersMedia
    \/ HandlersAfterConnect \/ HandlersLoop \/ BackfillReturns
    \/ HandlersEvent \/ HandlersDisconnected \/ HandlersCancel

SpecHandlers == InitHandlers /\ [][NextHandlers]_vars

\* the handlers in the registry that the call registered
C33Mine == { h \in sync.handlers : h.id \in sync.mine }

\* Sync itself has returned
C33SyncOver == sync.pc \in {"backfillEnd", "returned"}

\* C33: Sync registers exactly one handler per call and removes it on
\* every return after the registration (connect error, media worker
\* start error, AfterConnect error, cancellation, idle exit, reconnect
\* error).  After Sync or BackfillHistory has returned no handler that
\* the call registered is left, the handlers of others are, and no event
\* is stored any more.
C33_HandlerRemoved ==
    /\ [](sync.pc # "none" =>
            /\ sync.syncRegs <= 1
            /\ sync.pc \in {"connect", "media", "after", "loop"} =>
                  /\ sync.syncRegs = 1
                  /\ Cardinality({ h \in sync.handlers : h.owner = "sync" }) = 1
            /\ C33SyncOver => { h \in sync.handlers : h.owner = "sync" } = {}
            /\ sync.pc = "returned" => C33Mine = {}
            /\ \A h \in sync.handlers : h.owner = "other" \/ h.id \in sync.mine)
    /\ [][{ h \in sync'.handlers : h.owner = "other" }
            = { h \in sync.handlers : h.owner = "other" }]_vars
    /\ [][(sync.pc # "none" /\ C33SyncOver) =>
            /\ messages' = messages /\ chats' = chats
            /\ sync'.stored = sync.stored]_vars

\* BackfillHistory has returned after a cancellation in the loop, an event
\* was stored before and one arrived after, and the handler of someone
\* else is still there
C33_Witness ==
    /\ sync.pc = "returned" /\ sync.caller = "backfill" /\ sync.path = "cancel"
    /\ sync.events = 2 /\ sync.stored = 1
    /\ sync.handlers = { [id |-> 1, owner |-> "other"] }
    /\ Cardinality(sync.mine) = 2

\* every return path after the registration has been taken
C33Paths(why) == sync.pc = "returned" /\ sync.path = why /\ sync.syncRegs = 1

C33PathConnect == C33Paths("connect")
C33PathMedia == C33Paths("media")
C33PathAfter == C33Paths("afterConnect")
C33PathIdle == C33Paths("idle")
C33PathReconnect == C33Paths("reconnect")

-----------------------------------------------------------------------------
(* SpecIngest: Sync's handler on live messages when a step of
   storeParsedMessage fails.  db holds the contacts, groups and
   participants tables; sync.stored is messagesStored. *)

MaxIngestEvents == 2

IngestContactJIDs == {"c1@s.whatsapp.net", "b@s.whatsapp.net"}

\* the step that fails while a message is stored, if any
IngestFaults ==
    {"none", "chat upsert", "contact lookup", "contact upsert",
     "group lookup", "group upsert", "participants", "message upsert"}

BestEffortFaults ==
    {"contact lookup", "contact upsert", "group lookup", "group upsert",
     "participants"}

\* what GetContact finds for a jid
IngestContact(jid) ==
    [phone |-> "", push_name |-> "P", full_name |-> "", first_name |-> "",
     business_name |-> ""]

\* what GetGroupInfo lists for the group
IngestParticipants == << [UserJID |-> "u1@s.whatsapp.net", Role |-> "admin"] >>

\* an error that the caller returns
Returned(failed) == failed

\* `_ = a.db.Upsert...`, and `if ..., err := a.wa.Get...; err == nil {`:
\* the error of a metadata step is dropped
Swallowed(failed) == FALSE

\* storeParsedMessage with one failing step: UpsertChat (its error is
\* returned), the contact of a DM chat and of the sender, the group and its
\* participants, then UpsertMessage
storeWithFault(st, d, pm, lk, fault) ==
    LET lookupOK == fault # "contact lookup"
        upsertOK == fault # "contact upsert"
        jids == (IF Server(pm.Chat) = "s.whatsapp.net" THEN {pm.Chat} ELSE {})
                  \cup (IF pm.SenderJID # "" THEN {pm.SenderJID} ELSE {})
        contacts == IF lookupOK /\ upsertOK
                    THEN [j \in DOMAIN d.contacts |->
                            IF j \in jids
                            THEN UpsertContact(d.contacts, j, IngestContact(j), 1)[j]
                            ELSE d.contacts[j]]
                    ELSE d.contacts
        isGroup == Server(pm.Chat) = "g.us" /\ fault # "group lookup"
        groups == IF isGroup /\ fault # "group upsert"
                  THEN d.groups \cup {pm.Chat} ELSE d.groups
        parts == IF isGroup
                 THEN ReplaceGroupParticipants(d.participants, groups, pm.Chat,
                          IngestParticipants,
                          [at |-> IF fault = "participants" THEN "begin" ELSE "none",
                           i |-> 0]).table
                 ELSE d.participants
        abort == \/ Swallowed(jids # {} /\ ~(lookupOK /\ upsertOK))
                 \/ Swallowed(Server(pm.Chat) = "g.us"
                                /\ fault \in {"group lookup", "group upsert",
                                              "participants"})
        Outcome(res, d2) ==
            IF abort
            THEN [err |-> TRUE, d |-> d2,
                  st |-> [st EXCEPT !.chats = res.chats]]
            ELSE IF fault = "message upsert"
            THEN [err |-> TRUE, d |-> d2,
                  st |-> [st EXCEPT !.chats = res.chats]]
            ELSE [err |-> res.err, d |-> d2,
                  st |-> [chats |-> res.chats, messages |-> res.messages,
                          nextRowid |-> res.nextRowid]]
    IN  IF fault = "chat upsert"
        THEN [err |-> TRUE, st |-> st, d |-> d]
        ELSE Outcome(storeParsedMessage(st, pm, lk[1],
                                        IF lookupOK THEN lk[2] ELSE ""),
                     [d EXCEPT !.contacts = contacts, !.groups = groups,
                               !.participants = parts])

InitIngest ==
    /\ chats = [j \in ChatJIDs |-> NoRow]
    /\ messages = {}
    /\ nextRowid = 1
    /\ call = NoCall /\ supplied = [j \in ChatJIDs |-> {}] /\ ops = 0
    /\ db = [pc |-> "open", contacts |-> [j \in IngestContactJIDs |-> NoRow],
             groups |-> {}, participants |-> {}]
    /\ send = NoSend
    /\ sync = [pc |-> "loop", stored |-> 0, events |-> 0, cancelled |-> FALSE]

\* events.Message: the message is stored, and counted when
\* storeParsedMessage returns nil; the handler returns either way
IngestMessage ==
    /\ sync.pc = "loop" /\ sync.events < MaxIngestEvents
    /\ \E chat \in ChatJIDs, id \in MsgIDs, fault \in IngestFaults :
         \E res \in {storeWithFault(TheStore, db,
                                    ParsedMessage(chat, id, 1, TextBody),
                                    <<"Alice", "Bob">>, fault)} :
             /\ chats' = res.st.chats
             /\ messages' = res.st.messages
             /\ nextRowid' = res.st.nextRowid
             /\ db' = res.d
             /\ call' = [op |-> "IngestMessage", jid |-> chat, id |-> id,
                         fault |-> fault, err |-> res.err]
             /\ sync' = [sync EXCEPT !.events = @ + 1,
                                     !.stored = IF res.err THEN @ ELSE @ + 1]
    /\ UNCHANGED <<supplied, ops, send>>

\* the caller cancels ctx, and the loop of Sync returns
IngestCancel ==
    /\ sync.pc = "loop" /\ ~sync.cancelled
    /\ sync' = [sync EXCEPT !.cancelled = TRUE]
    /\ UNCHANGED <<storeVars, send>>

IngestReturn ==
    /\ sync.pc = "loop" /\ sync.cancelled
    /\ sync' = [sync EXCEPT !.pc = "returned"]
    /\ UNCHANGED <<storeVars, send>>

NextIngest == IngestMessage \/ IngestCancel \/ IngestReturn

SpecIngest == InitIngest /\ [][NextIngest]_vars

\* the handler handled an event in this step
C34Handled == sync'.events = sync.events + 1

\* C34: a failure of a best-effort metadata step (contact lookup or
\* upsert, group lookup, group upsert, participant replacement) neither
\* ends Sync nor keeps the message from being upserted and counted; a
\* failure of the chat upsert or of the message upsert leaves that
\* message uncounted and without effect on the messages table; in every
\* case Sync stays in its loop and handles the next event.
C34_BestEffortSwallowed ==
    /\ [][C34Handled =>
            /\ sync'.pc = "loop"
            /\ call'.fault \in BestEffortFaults \cup {"none"} =>
                  /\ ~call'.err
                  /\ sync'.stored = sync.stored + 1
                  /\ Cardinality(RowsOf(messages', call'.jid, call'.id)) = 1
                  /\ \A r \in RowsOf(messages', call'.jid, call'.id) :
                        r.text = "hello" /\ r.ts = 1
                  /\ chats'[call'.jid] # NoRow
            /\ call'.fault \in {"chat upsert", "message upsert"} =>
                  /\ call'.err
                  /\ sync'.stored = sync.stored
                  /\ messages' = messages
            /\ call'.fault = "chat upsert" => chats' = chats /\ db' = db]_vars
    /\ [][sync.pc = "loop" /\ sync'.pc # "loop" => sync.cancelled]_vars
    /\ [](sync.stored <= sync.events)

\* two events handled: the first lost its participant replacement and was
\* counted, the second lost its message upsert and was not
C34_Witness ==
    /\ sync.events = 2 /\ sync.stored = 1 /\ sync.pc = "loop"
    /\ call.op = "IngestMessage" /\ call.fault = "message upsert"
    /\ Cardinality(messages) = 1
    /\ \E r \in messages : r.chat_jid = "g1@g.us"
    /\ db.participants = {} /\ db.groups = {"g1@g.us"}

\* a message counted although the contact upsert failed
C34ContactLost ==
    /\ call.op = "IngestMessage" /\ call.fault = "contact upsert"
    /\ sync.stored = 1 /\ sync.events = 1
    /\ \A j \in IngestContactJIDs : db.contacts[j] = NoRow

-----------------------------------------------------------------------------
(* Claims on the follow mode, in SpecSync *)

\* Sync in follow mode has entered its loop
C35Following ==
    sync.pc # "none" /\ sync.mode = "follow" /\ sync.reason # "connect"
        /\ sync.pc # "connect" /\ sync.pc # "afterConnect"

\* C35: in follow mode Sync does not return while the context is not
\* cancelled, and when the context is cancelled it returns a nil error.
C35_FollowUntilCancelled ==
    (C35Following /\ sync.pc = "returned") =>
        sync.cancelled /\ sync.result = "nil"

\* C35 (as amended): in follow mode Sync returns from its loop only with
\* the context cancelled and never for being idle; a disconnect signal
\* taken by the loop starts ReconnectWithBackoff; the return is nil when
\* the loop's select sees the cancellation, and the error of
\* ReconnectWithBackoff when that call sees it.
C35_FollowReturns ==
    /\ []((C35Following /\ sync.pc = "returned") =>
            /\ sync.cancelled
            /\ sync.reason \in {"cancel", "reconnect"}
            /\ sync.reason = "cancel" <=> sync.result = "nil"
            /\ sync.reason = "reconnect" <=> sync.result = "err")
    /\ [][(C35Following /\ sync.pc = "loop" /\ sync'.pc # "loop") =>
            \/ sync.cancelled /\ sync'.pc = "returned" /\ sync'.result = "nil"
            \/ sync.disconnected = 1 /\ sync'.pc = "reconnect"]_vars
    /\ [][(C35Following /\ sync.pc \in {"reconnect", "backoff"}
             /\ sync'.pc = "returned") => sync.cancelled]_vars

\* follow mode, a disconnect, a reconnect after one backoff, and then
\* the cancellation seen by the loop: nil
C35_Witness ==
    /\ C35Following /\ sync.pc = "returned" /\ sync.result = "nil"
    /\ sync.cancelPc = "loop" /\ sync.connected
    /\ sync.delay > ReconnectMin /\ sync.now > sync.lastEvent

\* follow mode, cancelled during the backoff of a reconnect: an error
C35Err ==
    /\ C35Following /\ sync.pc = "returned" /\ sync.result = "err"
    /\ sync.cancelPc = "backoff" /\ sync.reason = "reconnect"

-----------------------------------------------------------------------------
(* SpecCount: messagesStored under live messages and history batches.
   sync.stored is the counter of the Sync call, sync.result the
   SyncResult.MessagesStored it returns; db.keys lists the (chat, id) of
   every store call that returned nil, in order. *)

MaxCountEvents == 2

\* the ids of history conversations: a chat, a chat in blanks, blanks, and
\* one that types.ParseJID rejects
CountConvIDs ==
    {"c1@s.whatsapp.net", " g1@g.us ", " ", "1.2.3@s.whatsapp.net"}

\* an entry of a history conversation; fail: the store refuses the chat
\* upsert of this entry
CountEntry(nilMessage, id, fail) ==
    [nilMessage |-> nilMessage, ID |-> id, t |-> 1, fail |-> fail]

\* the conv.Messages of a history conversation
CountBatches ==
    { << CountEntry(FALSE, "m1", FALSE) >>,
      << CountEntry(FALSE, "m2", FALSE) >>,
      << CountEntry(TRUE, "m1", FALSE), CountEntry(FALSE, "", FALSE) >>,
      << CountEntry(FALSE, "", FALSE), CountEntry(FALSE, "m1", FALSE) >>,
      << CountEntry(FALSE, "m1", FALSE), CountEntry(FALSE, "m2", FALSE) >>,
      << CountEntry(FALSE, "m1", FALSE), CountEntry(FALSE, "m1", FALSE) >>,
      << CountEntry(FALSE, "m2", TRUE), CountEntry(FALSE, "m2", FALSE) >>,
      << CountEntry(FALSE, "m1", FALSE), CountEntry(TRUE, "m2", FALSE),
         CountEntry(FALSE, "m2", TRUE) >> }

\* ParseHistoryMessage: pm.Chat is the parsed chat id, or the empty JID
HistoryChat(chatID) == IF chatID \in ChatJIDs THEN chatID ELSE ""

\* a counter that grows with every store call
CountedAlways(err) == TRUE

\* `if err := a.storeParsedMessage(ctx, pm); err == nil {`
Counted(err) == ~err

\* the store call of the handler and messagesStored.Add(1); c is
\* [st, n, keys]
storeCounted(c, pm, fail) ==
    LET Outcome(res) ==
            [st |-> [chats |-> res.chats, messages |-> res.messages,
                     nextRowid |-> res.nextRowid],
             n |-> IF Counted(res.err) THEN c.n + 1 ELSE c.n,
             keys |-> IF res.err THEN c.keys
                      ELSE Append(c.keys, <<pm.Chat, pm.ID>>)]
    IN  Outcome(IF fail
                THEN [chats |-> c.st.chats, messages |-> c.st.messages,
                      nextRowid |-> c.st.nextRowid, err |-> TRUE]
                ELSE storeParsedMessage(c.st, pm, "Alice", "Bob"))

RECURSIVE storeConversation(_, _, _)
\* the loop over conv.Messages: entries without a message, an id or a
\* chat are passed over
storeConversation(c, chatID, entries) ==
    IF entries = <<>> THEN c
    ELSE LET m == Head(entries)
             chat == HistoryChat(chatID)
         IN  IF m.nilMessage \/ m.ID = "" \/ chat = ""
             THEN storeConversation(c, chatID, Tail(entries))
             ELSE storeConversation(
                      storeCounted(c, ParsedMessage(chat, m.ID, m.t, TextBody),
                                   m.fail),
                      chatID, Tail(entries))

CountNow == [st |-> TheStore, n |-> sync.stored, keys |-> db.keys]

InitCount ==
    /\ chats = [j \in ChatJIDs |-> NoRow]
    /\ messages = {}
    /\ nextRowid = 1
    /\ call = NoCall /\ supplied = [j \in ChatJIDs |-> {}] /\ ops = 0
    /\ db = [pc |-> "open", keys |-> <<>>]
    /\ send = NoSend
    /\ sync = [pc |-> "loop", stored |-> 0, events |-> 0, cancelled |-> FALSE,
               result |-> 0]

CountApply(c) ==
    /\ chats' = c.st.chats
    /\ messages' = c.st.messages
    /\ nextRowid' = c.st.nextRowid
    /\ db' = [db EXCEPT !.keys = c.keys]

\* events.Message: stored whatever its id, counted when stored
CountLive ==
    /\ sync.pc = "loop" /\ sync.events < MaxCountEvents
    /\ \E chat \in ChatJIDs, id \in MsgIDs \cup {""}, fail \in BOOLEAN :
         \E c \in {storeCounted(CountNow,
                                 ParsedMessage(chat, id, 1, TextBody), fail)} :
             /\ CountApply(c)
             /\ call' = [op |-> "Message", jid |-> chat, id |-> id,
                         fail |-> fail, entries |-> <<>>]
             /\ sync' = [sync EXCEPT !.events = @ + 1, !.stored = c.n]
    /\ UNCHANGED <<supplied, ops, send>>

\* events.HistorySync with one conversation
CountHistory ==
    /\ sync.pc = "loop" /\ sync.events < MaxCountEvents
    /\ \E convID \in CountConvIDs, entries \in CountBatches :
         \E chatID \in {IF convID = " g1@g.us " THEN "g1@g.us"
                         ELSE TrimSpace(convID)} :
         \E c \in {IF chatID = "" THEN CountNow
                   ELSE storeConversation(CountNow, chatID, entries)} :
             /\ CountApply(c)
             /\ call' = [op |-> "HistorySync", jid |-> chatID, id |-> "",
                         fail |-> FALSE, entries |-> entries]
             /\ sync' = [sync EXCEPT !.events = @ + 1, !.stored = c.n]
    /\ UNCHANGED <<supplied, ops, send>>

\* the caller cancels ctx
CountCancel ==
    /\ sync.pc = "loop" /\ ~sync.cancelled
    /\ sync' = [sync EXCEPT !.cancelled = TRUE]
    /\ UNCHANGED <<storeVars, send>>

\* case <-ctx.Done(): return SyncResult{MessagesStored: messagesStored.Load()}
CountReturn ==
    /\ sync.pc = "loop" /\ sync.cancelled
    /\ sync' = [sync EXCEPT !.pc = "returned", !.result = sync.stored]
    /\ UNCHANGED <<storeVars, send>>

NextCount == CountLive \/ CountHistory \/ CountCancel \/ CountReturn

SpecCount == InitCount /\ [][NextCount]_vars

\* the handler handled an event in this step
C36Handled == sync'.events = sync.events + 1

\* the entries of the handled batch that have a message and an id, in a
\* conversation whose id parses, and whose store call did not fail
C36Stored(chatID, entries) ==
    {i \in 1..Len(entries) :
        /\ chatID \in ChatJIDs
        /\ ~entries[i].nilMessage /\ entries[i].ID # ""
        /\ ~entries[i].fail}

C36Keys(msgs) == {<<r.chat_jid, r.msg_id>> : r \in msgs}

C36Distinct(keys) ==
    \A i, j \in 1..Len(keys) : keys[i] = keys[j] => i = j

\* C36: MessagesStored is the number of message inputs handled whose store
\* call succeeded (live messages, and history entries with a message, an
\* id and a parsable chat), a repeated id counted each time; the other
\* history entries are neither stored nor counted; from an empty store
\* and with distinct ids the count is the number of message rows.
C36_MessagesStored ==
    /\ [][C36Handled /\ call'.op = "Message" =>
            /\ sync'.stored = sync.stored + (IF call'.fail THEN 0 ELSE 1)
            /\ call'.fail => messages' = messages
            /\ ~call'.fail => RowsOf(messages', call'.jid, call'.id) # {}]_vars
    /\ [][C36Handled /\ call'.op = "HistorySync" =>
            LET e == call'.entries
                ok == C36Stored(call'.jid, e)
            IN  /\ sync'.stored = sync.stored + Cardinality(ok)
                /\ \A i \in ok : RowsOf(messages', call'.jid, e[i].ID) # {}
                /\ C36Keys(messages' \ messages)
                      \subseteq {<<call'.jid, e[i].ID>> : i \in ok}
                /\ ok = {} => messages' = messages /\ chats' = chats]_vars
    /\ [](sync.stored = Len(db.keys))
    /\ [](C36Keys(messages) = {db.keys[i] : i \in 1..Len(db.keys)})
    /\ [](Cardinality(messages) <= sync.stored)
    /\ [](C36Distinct(db.keys) => sync.stored = Cardinality(messages))
    /\ [](sync.pc = "returned" => sync.result = sync.stored)

\* the test's run: one live and one history message, the context
\* cancelled, 2 returned and 2 rows
C36_Witness ==
    /\ sync.pc = "returned" /\ sync.result = 2 /\ Cardinality(messages) = 2
    /\ call.op = "HistorySync" /\ Len(call.entries) = 1
    /\ C36Distinct(db.keys)

\* the same id stored twice: counted twice, one row
C36Repeated ==
    /\ sync.stored = 2 /\ Cardinality(messages) = 1 /\ ~C36Distinct(db.keys)

\* a batch of skipped entries only: an entry without a message and one in
\* a conversation whose id does not parse
C36SkippedOnly ==
    /\ call.op = "HistorySync" /\ call.jid = "1.2.3@s.whatsapp.net"
    /\ sync.events = 1 /\ sync.stored = 0 /\ messages = {}
    /\ \E i \in 1..Len(call.entries) :
          ~call.entries[i].nilMessage /\ call.entries[i].ID = "m1"

\* a batch with one entry stored and one entry whose store call failed
C36Failed ==
    /\ call.op = "HistorySync" /\ Len(call.entries) = 2
    /\ call.entries[1].fail /\ C36Stored(call.jid, call.entries) = {2}
    /\ sync.events = 1 /\ sync.stored = 1

\* a live message without an id is stored and counted
C36LiveNoID ==
    /\ call.op = "Message" /\ call.id = "" /\ ~call.fail
    /\ sync.stored = 1 /\ Cardinality(messages) = 1

-----------------------------------------------------------------------------
(* Claims on HasFTS over the openings of a store, in SpecFTS *)

\* the messages_fts table and its triggers are provisioned
C37Provisioned == db.table = "new" /\ db.triggers = "new"

\* C37: on every open of a store whose messages_fts table and triggers
\* are provisioned, HasFTS is true after Open (and SearchMessages takes
\* the index path); HasFTS is false only when the index could not be
\* provisioned.
C37_HasFTSEveryOpen ==
    (db.pc = "open" /\ C37Provisioned) => db.ftsEnabled

\* what holds: HasFTS is true only with the table and the triggers
\* provisioned and version 3 recorded, and an Open that finds version 3
\* recorded leaves the flag false whatever the state of the index
C37Rest ==
    /\ []((db.pc = "open" /\ db.ftsEnabled) => C37Provisioned /\ db.ledger3)
    /\ [][(db.pc \in {"closed", "failed"} /\ db.ledger3 /\ db'.pc # db.pc) =>
            db'.pc = "open" /\ ~db'.ftsEnabled]_vars

\* the first Open provisioned the index and HasFTS was true
C37First ==
    /\ db.pc = "open" /\ db.opens = 1 /\ db.ftsEnabled /\ C37Provisioned
    /\ db.writes = 1 /\ C27Lockstep

\* the second Open of that store: the index is provisioned and in
\* lockstep with the messages, and HasFTS is false
C37Reopened ==
    /\ db.pc = "open" /\ db.opens = 2 /\ ~db.ftsEnabled /\ C37Provisioned
    /\ ~db.legacy /\ messages # {} /\ C27Lockstep

-----------------------------------------------------------------------------
(* SpecReaction: a target m1, a reaction m2 to it and a reply m3 to it
   are ingested in any order and any number of times, in chat c1. *)

MaxReactionEvents == 3

ReactionNoRef ==
    [ReplyToID |-> "", ReplyToDisplay |-> "", ReactionToID |-> "",
     ReactionEmoji |-> ""]

\* the parsed messages: the target as text or as an image, the reaction,
\* the reply without and with the quoted text inline
ReactionEvents ==
    { [ID |-> "m1", Text |-> " hello ", Media |-> NoMedia] @@ ReactionNoRef,
      [ID |-> "m1", Text |-> "", Media |-> MediaOf("image", "")] @@ ReactionNoRef,
      [ID |-> "m2", Text |-> "", Media |-> NoMedia, ReactionToID |-> "m1",
       ReactionEmoji |-> "+"] @@ ReactionNoRef,
      [ID |-> "m3", Text |-> "reply text", Media |-> NoMedia,
       ReplyToID |-> "m1"] @@ ReactionNoRef,
      [ID |-> "m3", Text |-> "reply text", Media |-> NoMedia,
       ReplyToID |-> "m1", ReplyToDisplay |-> "quoted text"] @@ ReactionNoRef }

InitReaction == Init

\* events.Message: the handler stores the parsed message; the call records
\* the message and the table before the write
ReactionIngest ==
    /\ ops < MaxReactionEvents
    /\ \E ev \in ReactionEvents, t \in 1..MaxTs :
         LET pm == ParsedMessage(DisplayChat, ev.ID, t,
                                 [x \in DOMAIN ev \ {"ID"} |-> ev[x]] @@ DisplaySender)
             res == storeParsedMessage(TheStore, pm, "", "")
         IN  /\ chats' = res.chats
             /\ messages' = res.messages
             /\ nextRowid' = res.nextRowid
             /\ call' = [op |-> "ingest", pm |-> pm, before |-> messages]
    /\ ops' = ops + 1
    /\ UNCHANGED <<supplied, db, sync, send>>

NextReaction == ReactionIngest

SpecReaction == InitReaction /\ [][NextReaction]_vars

\* the display text stored for a message of the chat, NULL without a row
C38Display(msgs, id) ==
    LET rows == RowsOf(msgs, DisplayChat, id)
    IN  IF rows = {} THEN NULL ELSE (CHOOSE r \in rows : TRUE).display_text

\* what a stored target resolves to
C38Target(msgs) ==
    IF C38Display(msgs, "m1") = NULL THEN "message" ELSE C38Display(msgs, "m1")

\* C38: the display text of a reaction or reply is fixed when it is
\* ingested: a reaction ingested before its target is stored reads
\* "Reacted <emoji> to message" and keeps reading so when the target is
\* stored later; it names the target's text only once the reaction itself
\* is ingested again after the target.  The same for a reply without
\* inline quoted text.
C38_FixedAtIngestion ==
    /\ [][ops' = ops + 1 =>
            \A r \in messages : r.msg_id # call'.pm.ID => r \in messages']_vars
    /\ [][(ops' = ops + 1 /\ call'.pm.ID = "m2") =>
            C38Display(messages', "m2") = "Reacted + to " \o C38Target(messages)]_vars
    /\ [][(ops' = ops + 1 /\ call'.pm.ID = "m3" /\ call'.pm.ReplyToDisplay = "") =>
            C38Display(messages', "m3")
               = "> " \o C38Target(messages) \o "\nreply text"]_vars
    /\ [][(C38Display(messages, "m2") # NULL
             /\ C38Display(messages', "m2") # C38Display(messages, "m2")) =>
            /\ call'.pm.ID = "m2"
            /\ C38Display(messages, "m1") # NULL]_vars

\* the reaction was ingested, then the target, then the reaction again:
\* it names the target only now
C38_Witness ==
    /\ ops = 3 /\ call.op = "ingest" /\ call.pm.ID = "m2"
    /\ C38Display(call.before, "m2") = "Reacted + to message"
    /\ C38Display(call.before, "m1") = "hello"
    /\ C38Display(messages, "m2") = "Reacted + to hello"

\* the reaction was ingested before its target and still reads so with
\* the target stored
C38Stale ==
    /\ call.op = "ingest" /\ call.pm.ID = "m1"
    /\ C38Display(messages, "m1") = "Sent image"
    /\ C38Display(messages, "m2") = "Reacted + to message"
    /\ C38Display(call.before, "m1") = NULL

\* the same for a reply
C38StaleReply ==
    /\ call.op = "ingest" /\ call.pm.ID = "m1"
    /\ C38Display(messages, "m1") = "hello"
    /\ C38Display(messages, "m3") = "> message\nreply text"

-----------------------------------------------------------------------------
(* SpecAccept: the goroutines StartSendServer starts.  send.listener is
   the listening socket, send.acceptor the goroutine of the accept loop,
   send.closer the goroutine that waits for ctx.Done(), send.errors the
   Accept calls that returned an error (counted up to MaxAcceptErrors), send.accepted the connections handed
   to handleSendConn. *)

MaxAccepted == 3
MaxAcceptErrors == 3

InitAccept ==
    /\ StoreInit /\ sync = NoSync
    /\ send = [pc |-> "serving", listener |-> "open", cancelled |-> FALSE,
               cleaned |-> FALSE, acceptor |-> "accept", closer |-> "wait",
               accepted |-> 0, errors |-> 0]

\* `if ctx.Err() != nil { return }`
AcceptStops(s) == s.cancelled

\* listener.Accept returns a connection: go a.handleSendConn(ctx, conn)
AcceptConn ==
    /\ send.acceptor = "accept" /\ send.listener = "open"
    /\ send.accepted < MaxAccepted
    /\ send' = [send EXCEPT !.accepted = @ + 1]
    /\ UNCHANGED <<storeVars, sync>>

\* listener.Accept returns an error, at once when the listener is closed
AcceptFails ==
    /\ send.acceptor = "accept"
    /\ send.listener = "closed" \/ send.errors < MaxAcceptErrors
    /\ send' = [send EXCEPT !.acceptor = "failed",
                            !.errors = IF @ < MaxAcceptErrors THEN @ + 1 ELSE @]
    /\ UNCHANGED <<storeVars, sync>>

\* the loop returns if ctx is done and goes on to the next Accept if not
AcceptError ==
    /\ send.acceptor = "failed"
    /\ IF AcceptStops(send)
       THEN send' = [send EXCEPT !.acceptor = "returned"]
       ELSE send' = [send EXCEPT !.acceptor = "accept"]
    /\ UNCHANGED <<storeVars, sync>>

\* the caller cancels ctx
AcceptCancel ==
    /\ ~send.cancelled
    /\ send' = [send EXCEPT !.cancelled = TRUE]
    /\ UNCHANGED <<storeVars, sync>>

\* <-ctx.Done(); listener.Close()
AcceptCloser ==
    /\ send.closer = "wait" /\ send.cancelled
    /\ send' = [send EXCEPT !.closer = "returned", !.listener = "closed"]
    /\ UNCHANGED <<storeVars, sync>>

\* the cleanup function: listener.Close(); os.Remove(sockPath)
AcceptCleanup ==
    /\ ~send.cleaned
    /\ send' = [send EXCEPT !.cleaned = TRUE, !.listener = "closed"]
    /\ UNCHANGED <<storeVars, sync>>

NextAccept ==
    \/ AcceptConn \/ AcceptFails \/ AcceptError
    \/ AcceptCancel \/ AcceptCloser \/ AcceptCleanup

SpecAccept == InitAccept /\ [][NextAccept]_vars

\* the two goroutines get to run
SpecAcceptFair ==
    SpecAccept /\ WF_vars(AcceptFails \/ AcceptError) /\ WF_vars(AcceptCloser)

\* C39: after the context is cancelled or the cleanup function is called,
\* the listener is closed, no further connection is accepted, and the
\* accept goroutine terminates.
C39_AcceptLoopStops ==
    (send.cancelled \/ send.cleaned)
        ~> (send.listener = "closed" /\ send.acceptor = "returned")

\* what holds: after either the listener is closed and accepts nothing
\* more; the accept goroutine returns after a cancellation; with the
\* listener closed and ctx not done every Accept fails and is repeated
C39Rest ==
    /\ (send.cancelled \/ send.cleaned) ~> (send.listener = "closed")
    /\ [][send.listener = "closed" =>
            send'.listener = "closed" /\ send'.accepted = send.accepted]_vars
    /\ send.cancelled ~> (send.acceptor = "returned" /\ send.closer = "returned")
    /\ [][(send'.acceptor = "returned" /\ send.acceptor # "returned") =>
            send.cancelled]_vars
    /\ [](send.acceptor = "returned" => send.cancelled)

\* cleanup was called, ctx is not done: the loop has gone through
\* MaxAcceptErrors failed Accepts on the closed listener and is at Accept
C39Spinning ==
    /\ send.pc = "serving" /\ send.cleaned /\ ~send.cancelled
    /\ send.listener = "closed" /\ send.acceptor = "accept"
    /\ send.errors = MaxAcceptErrors /\ send.accepted = MaxAccepted

\* ctx was cancelled: both goroutines returned
C39Stopped ==
    /\ send.pc = "serving" /\ send.cancelled /\ ~send.cleaned
    /\ send.acceptor = "returned" /\ send.closer = "returned"
    /\ send.accepted > 0

-----------------------------------------------------------------------------
(* SpecMark: UpsertMessage and MarkMediaDownloaded on the messages of two
   chats.  db.marked is, for each key, the last local path and time that
   MarkMediaDownloaded wrote to a row. *)

MaxMarkOps == 3

NoMark == <<>>

\* the local path and the download time of a call
MarkInputs == { <<"/tmp/a", 1>>, <<"/tmp/b", 2>>, <<"/tmp/a", ZeroTime>> }

\* UPDATE messages SET local_path = ?, downloaded_at = ? WHERE chat_jid = ?:
\* every message of the chat is marked
MarkChatDownloaded(msgs, chatJID, msgID, localPath, downloadedAt) ==
    { IF r.chat_jid = chatJID
      THEN [r EXCEPT !.local_path = localPath,
                     !.downloaded_at = unix(downloadedAt)]
      ELSE r : r \in msgs }

\* UPDATE messages SET local_path = ?, downloaded_at = ?
\* WHERE chat_jid = ? AND msg_id = ?
MarkMediaDownloaded(msgs, chatJID, msgID, localPath, downloadedAt) ==
    { IF r.chat_jid = chatJID /\ r.msg_id = msgID
      THEN [r EXCEPT !.local_path = localPath,
                     !.downloaded_at = unix(downloadedAt)]
      ELSE r : r \in msgs }

InitMark ==
    /\ chats = [j \in ChatJIDs |->
                  UpsertChat([k \in ChatJIDs |-> NoRow], j, "dm", "Alice", 1)[j]]
    /\ messages = {}
    /\ nextRowid = 1
    /\ call = NoCall /\ supplied = [j \in ChatJIDs |-> {}] /\ ops = 0
    /\ db = [pc |-> "open", marked |-> [k \in UpsertKeys |-> NoMark]]
    /\ sync = NoSync /\ send = NoSend

MarkUpsert ==
    /\ ops < MaxMarkOps
    /\ \E p \in UpsertInputs :
         LET res == UpsertMessage(chats, messages, nextRowid, p)
         IN  /\ messages' = res.messages
             /\ nextRowid' = res.nextRowid
             /\ call' = [op |-> "UpsertMessage", key |-> <<p.ChatJID, p.MsgID>>,
                         err |-> res.err]
    /\ ops' = ops + 1
    /\ UNCHANGED <<chats, supplied, db, sync, send>>

\* the media worker's call after a download; without a row of the key the
\* UPDATE changes nothing
MarkDownloaded ==
    /\ ops < MaxMarkOps
    /\ \E k \in UpsertKeys, in \in MarkInputs :
         /\ messages' = MarkMediaDownloaded(messages, k[1], k[2], in[1], in[2])
         /\ call' = [op |-> "MarkMediaDownloaded", key |-> k, err |-> FALSE,
                     path |-> in[1], at |-> in[2]]
         /\ db' = IF RowsOf(messages, k[1], k[2]) = {} THEN db
                  ELSE [db EXCEPT !.marked[k] = <<in[1], unix(in[2])>>]
    /\ ops' = ops + 1
    /\ UNCHANGED <<chats, nextRowid, supplied, sync, send>>

NextMark == MarkUpsert \/ MarkDownloaded

SpecMark == InitMark /\ [][NextMark]_vars

\* the row r with the two download columns set aside
C40Others(r) ==
    [c \in DOMAIN r \ {"local_path", "downloaded_at"} |-> r[c]]

\* C40: once MarkMediaDownloaded has set a message's local path and
\* download time, no later UpsertMessage for the same (chat_jid, msg_id)
\* changes or clears them; MarkMediaDownloaded changes no other column
\* and no row other than the named message.
C40_DownloadKept ==
    /\ [](\A k \in UpsertKeys :
            db.marked[k] # NoMark =>
               /\ RowsOf(messages, k[1], k[2]) # {}
               /\ \A r \in RowsOf(messages, k[1], k[2]) :
                     /\ r.local_path = db.marked[k][1]
                     /\ r.downloaded_at = db.marked[k][2])
    /\ [][(ops' = ops + 1 /\ call'.op = "UpsertMessage") =>
            \A r \in messages : \E q \in messages' :
                /\ q.rowid = r.rowid
                /\ q.local_path = r.local_path
                /\ q.downloaded_at = r.downloaded_at]_vars
    /\ [][(ops' = ops + 1 /\ call'.op = "MarkMediaDownloaded") =>
            /\ Cardinality(messages') = Cardinality(messages)
            /\ \A r \in messages :
                  IF <<r.chat_jid, r.msg_id>> = call'.key
                  THEN \E q \in messages' :
                          /\ C40Others(q) = C40Others(r)
                          /\ q.local_path = call'.path
                          /\ q.downloaded_at = unix(call'.at)
                  ELSE r \in messages'
            /\ chats' = chats /\ nextRowid' = nextRowid]_vars

\* a media message was marked, and then upserted again with a payload
\* that names no media: the path and time are as marked
C40_Witness ==
    /\ ops = 3 /\ call.op = "UpsertMessage" /\ ~call.err
    /\ call.key = <<"c1@s.whatsapp.net", "m1">>
    /\ db.marked[call.key] = <<"/tmp/b", 2>>
    /\ \E r \in messages :
          /\ r.msg_id = "m1" /\ r.chat_jid = "c1@s.whatsapp.net"
          /\ r.local_path = "/tmp/b" /\ r.downloaded_at = 2
          /\ r.media_type = NULL /\ r.direct_path = "/b"

\* a message marked while another message of the chat is stored unmarked
C40OtherRow ==
    /\ call.op = "MarkMediaDownloaded" /\ call.key = <<"c1@s.whatsapp.net", "m2">>
    /\ Cardinality(messages) = 2
    /\ \E r \in messages : r.msg_id = "m1" /\ r.local_path = NULL
    /\ \E r \in messages : r.msg_id = "m2" /\ r.local_path = "/tmp/a"

\* MarkMediaDownloaded for a message that is not stored
C40NoRow ==
    /\ call.op = "MarkMediaDownloaded" /\ messages # {}
    /\ RowsOf(messages, call.key[1], call.key[2]) = {}
    /\ db.marked[call.key] = NoMark

========================================================================
